---- MODULE Spec2Model ----
(***************************************************************************)
(* Model of the prompt-refinement workflow: the Flask front end            *)
(* (app_frontend.py), the terminal front end (app_terminal.py) and the     *)
(* backend they share (app_backend.py).                                    *)
(*                                                                         *)
(* Text is a sequence of one-character strings.  A value that Python       *)
(* treats as "absent or empty" (None, {}, a missing file) is a sequence of *)
(* length 0 and a present value v is <<v>>.                                *)
(***************************************************************************)
EXTENDS Integers, Sequences, FiniteSets, TLC

\* ---------------------------------------------------------------- bounds
MaxSid == 2            \* session ids (uuid4 values) handed out in one run
MaxPendingReview == 1  \* pending_review entries kept in iteration_history
MaxHistory == 4        \* entries kept in iteration_history
CountCap == 5          \* iteration counts explored (above the limit of 3)
MaxInflight == 2       \* requests of one browser handled at the same time

\* ------------------------------------------------------ program constants
MaxIterations == 3     \* the literal 3 in the iteration guards
SnippetLen == 100      \* response_text[:100]

Clients == {1, 2}
Space == " "

\* ------------------------------------------------------------------ text
RECURSIVE lstrip(_)
lstrip(s) == IF s = <<>> THEN s
             ELSE IF Head(s) = Space THEN lstrip(Tail(s)) ELSE s

RECURSIVE rstrip(_)
rstrip(s) == IF s = <<>> THEN s
             ELSE IF s[Len(s)] = Space THEN rstrip(SubSeq(s, 1, Len(s) - 1)) ELSE s

\* str.strip()
strip(s) == rstrip(lstrip(s))

\* s[:n]
Take(s, n) == SubSeq(s, 1, IF Len(s) < n THEN Len(s) ELSE n)

\* ------------------------------------------------- the completion service
\* generate_response either raises or returns a body.
Raise == <<"!", "r", "a", "i", "s", "e">>
Bodies == { <<Space, "b">> }
LlmOutcomes == Bodies \cup {Raise}

\* ============================================================ app_backend
\* ------------------------------------------- analyze_feedback_patterns
\* one character, the arrow U+2192 of the pattern key
Arrow == "->"
Ellipsis == <<".", ".", ".">>

\* f"{original} → {corrected}"
pattern_key(original, corrected) == original \o <<Space, Arrow, Space>> \o corrected

\* index < -len(list): a Python list subscript raises IndexError
IndexError(list, index) == index >= Len(list) \/ index < 0 - Len(list)

\* list[index] with Python's negative subscripts
PyItem(list, index) == IF index >= 0 THEN list[index + 1] ELSE list[Len(list) + index + 1]

\* the position of a key in an insertion-ordered dict, 0 when absent
KeyPos(dict, key) ==
    IF \E i \in 1..Len(dict) : dict[i].pattern = key
    THEN CHOOSE i \in 1..Len(dict) : dict[i].pattern = key
    ELSE 0

\* category_confusion_matrix[original][corrected] += 1, creating what is missing
MatrixAdd(matrix, original, corrected) ==
    LET row  == IF original \in DOMAIN matrix THEN matrix[original] ELSE <<>>
        row2 == [k \in (DOMAIN row) \cup {corrected} |->
                   IF k = corrected
                   THEN (IF corrected \in DOMAIN row THEN row[corrected] ELSE 0) + 1
                   ELSE row[k]]
    IN  [o \in (DOMAIN matrix) \cup {original} |-> IF o = original THEN row2 ELSE matrix[o]]

\* a pattern entry that is started over at every correction
EnsurePattern_reset(mp, key) ==
    IF KeyPos(mp, key) = 0
    THEN Append(mp, [pattern |-> key, count |-> 0, examples |-> <<>>])
    ELSE [mp EXCEPT ![KeyPos(mp, key)] = [pattern |-> key, count |-> 0, examples |-> <<>>]]

\* if pattern_key not in patterns['misclassification_patterns']: start its entry
EnsurePattern(mp, key) ==
    IF KeyPos(mp, key) = 0
    THEN Append(mp, [pattern |-> key, count |-> 0, examples |-> <<>>])
    ELSE mp

\* one more example for a pattern entry
AddExample(examples, example) == Append(examples, example)

\* the body of "for correction in corrections"
AnalyzeCorrection(patterns, correction, results) ==
    LET original      == correction.original_classification
        corrected     == correction.new_classification
        feedback_text == correction.feedback
        index         == correction.index
    IN  IF index < Len(results) /\ IndexError(results, index)
        THEN [patterns EXCEPT !.raised = TRUE]
        ELSE
        LET response_text ==
                IF index < Len(results)
                THEN Take(PyItem(results, index).response_text, SnippetLen) \o Ellipsis
                ELSE <<>>
            key   == pattern_key(original, corrected)
            mp0   == patterns.misclassification_patterns
            mp1   == EnsurePattern(mp0, key)
            pos   == KeyPos(mp1, key)
            mp2   == [mp1 EXCEPT ![pos] =
                        [pattern  |-> key,
                         count    |-> @.count + 1,
                         examples |-> AddExample(@.examples,
                                        [response |-> response_text,
                                         feedback |-> feedback_text,
                                         index    |-> index])]]
        IN  [patterns EXCEPT
               !.misclassification_patterns = mp2,
               !.category_confusion_matrix = MatrixAdd(@, original, corrected),
               !.specific_examples = Append(@,
                   [original_classification  |-> original,
                    corrected_classification |-> corrected,
                    response_text            |-> response_text,
                    user_feedback            |-> feedback_text,
                    index                    |-> index])]

RECURSIVE AnalyzeLoop(_, _, _, _)
AnalyzeLoop(patterns, corrections, results, i) ==
    IF i > Len(corrections) \/ patterns.raised THEN patterns
    ELSE AnalyzeLoop(AnalyzeCorrection(patterns, corrections[i], results),
                     corrections, results, i + 1)

\* list.sort(key=count, reverse=True): stable, descending
RECURSIVE InsertByCount(_, _)
InsertByCount(sorted, e) ==
    IF sorted = <<>> THEN <<e>>
    ELSE IF sorted[Len(sorted)].count >= e.count THEN Append(sorted, e)
    ELSE Append(InsertByCount(SubSeq(sorted, 1, Len(sorted) - 1), e), sorted[Len(sorted)])

RECURSIVE SortByCountDesc(_)
SortByCountDesc(list) ==
    IF list = <<>> THEN <<>>
    ELSE InsertByCount(SortByCountDesc(SubSeq(list, 1, Len(list) - 1)), list[Len(list)])

\* the patterns that occur more than once, in dict order
RECURSIVE CommonErrors(_)
CommonErrors(mp) ==
    IF mp = <<>> THEN <<>>
    ELSE LET rest == CommonErrors(Tail(mp))
         IN  IF Head(mp).count > 1
             THEN <<[pattern  |-> Head(mp).pattern,
                     count    |-> Head(mp).count,
                     examples |-> Take(Head(mp).examples, 2)]>> \o rest
             ELSE rest

\* how a function ends: with a value, or with an exception leaving it
Returns(value) == [exception |-> FALSE, value |-> value]
Throws == [exception |-> TRUE, value |-> <<>>]

\* the try block of analyze_feedback_patterns; feedback_data is <<>> (None) or
\* <<[feedback, changes_count]>>, the value <<>> (None) or <<analysis>>
analyze_feedback_patterns_try(feedback_data, results) ==
    IF feedback_data = <<>> \/ feedback_data[1].feedback = <<>> THEN Returns(<<>>)
    ELSE
    LET corrections == feedback_data[1].feedback
        patterns0 == [raised |-> FALSE,
                      total_corrections |-> Len(corrections),
                      misclassification_patterns |-> <<>>,
                      category_confusion_matrix |-> <<>>,
                      specific_examples |-> <<>>]
        patterns1 == AnalyzeLoop(patterns0, corrections, results, 1)
    IN  IF patterns1.raised THEN Throws
        ELSE Returns(
              <<[total_corrections |-> patterns1.total_corrections,
                 misclassification_patterns |-> patterns1.misclassification_patterns,
                 category_confusion_matrix |-> patterns1.category_confusion_matrix,
                 common_errors |-> SortByCountDesc(CommonErrors(patterns1.misclassification_patterns)),
                 specific_examples |-> patterns1.specific_examples]>>)

\* a handler that lets the exception through
analyze_feedback_patterns_except_none(outcome) == outcome

\* except Exception as e: ... return None
analyze_feedback_patterns_except(outcome) ==
    IF outcome.exception THEN Returns(<<>>) ELSE outcome

\* the call as its caller sees it
analyze_feedback_patterns_call(feedback_data, results) ==
    analyze_feedback_patterns_except(analyze_feedback_patterns_try(feedback_data, results))

\* the value of a call that returns
analyze_feedback_patterns(feedback_data, results) ==
    analyze_feedback_patterns_call(feedback_data, results).value


\* --------------------------------------------------- run_batch_inference
ErrorLabel == <<"e", "r", "r", "o", "r">>

\* reply: what the single completion call and get_score_json give:
\* [kind |-> "raise"], [kind |-> "unparsable"] or [kind |-> "json", scores |-> f]
\* with f a function from response indexes to the labels returned
\* a score that is no text (a number, null): it has no strip()
NotText == <<"null">>

\* the results of both except clauses: every response labelled 'error'
ErrorResults(responses) ==
    [i \in 1..Len(responses) |->
        [response_text |-> responses[i].text, ai_classification |-> ErrorLabel, index |-> i - 1]]

\* the inner try block: get_score_json and the loop over the responses
batch_results(responses, reply) ==
    IF reply.kind = "unparsable" THEN Throws
    ELSE IF \E i \in 1..Len(responses) :
               (i - 1) \in DOMAIN reply.scores /\ reply.scores[i - 1] = NotText
    THEN Throws
    ELSE Returns([i \in 1..Len(responses) |->
                     [response_text |-> responses[i].text,
                      ai_classification |->
                          IF (i - 1) \in DOMAIN reply.scores THEN strip(reply.scores[i - 1])
                          ELSE ErrorLabel,
                      index |-> i - 1]])

\* a batch whose failed completion call is not caught
run_batch_inference_call_uncaught(responses, reply) ==
    IF reply.kind = "raise" THEN Throws
    ELSE LET outcome == batch_results(responses, reply)
         IN  IF outcome.exception THEN Returns(ErrorResults(responses)) ELSE outcome

\* the outer try block with both except clauses
run_batch_inference_call(responses, reply) ==
    IF reply.kind = "raise" THEN Returns(ErrorResults(responses))
    ELSE LET outcome == batch_results(responses, reply)
         IN  IF outcome.exception THEN Returns(ErrorResults(responses)) ELSE outcome

run_batch_inference(responses, reply) == run_batch_inference_call(responses, reply).value

\* ------------------------------------------------ create_intelligent_diff
Newline == "\n"

\* truncation of the texts in key_changes, and the number of them kept
KeyTextLen == 50
KeyTextWords == 10
ModTextLen == 30
ModTextWords == 5
MaxKeyChanges == 5

\* the number of leading characters of text that are no whitespace
RECURSIVE WordLen(_)
WordLen(text) ==
    IF text = <<>> \/ text[1] \in {Space, Newline} THEN 0 ELSE 1 + WordLen(Tail(text))

\* str.split(): the maximal runs without whitespace
RECURSIVE split(_)
split(text) ==
    IF text = <<>> THEN <<>>
    ELSE IF text[1] \in {Space, Newline} THEN split(Tail(text))
    ELSE LET n == WordLen(text)
         IN  <<SubSeq(text, 1, n)>> \o split(SubSeq(text, n + 1, Len(text)))

\* ' '.join(words)
RECURSIVE join(_)
join(words) ==
    IF words = <<>> THEN <<>>
    ELSE IF Len(words) = 1 THEN words[1]
    ELSE words[1] \o <<Space>> \o join(Tail(words))

\* words[lo:hi]
Slice(words, lo, hi) == SubSeq(words, lo + 1, hi)

\* html.escape
RECURSIVE escape(_)
escape(text) ==
    IF text = <<>> THEN <<>>
    ELSE (CASE text[1] = "&" -> <<"&", "a", "m", "p", ";">>
            [] text[1] = "<" -> <<"&", "l", "t", ";">>
            [] text[1] = ">" -> <<"&", "g", "t", ";">>
            [] text[1] = "\"" -> <<"&", "q", "u", "o", "t", ";">>
            [] text[1] = "'" -> <<"&", "#", "x", "2", "7", ";">>
            [] OTHER -> <<text[1]>>) \o escape(Tail(text))

\* difflib.SequenceMatcher (below the 200 elements where autojunk starts):
\* the length of the common run of a from i and b from j (0-based)
RECURSIVE MatchLen(_, _, _, _, _, _)
MatchLen(a, b, i, j, ahi, bhi) ==
    IF i < ahi /\ j < bhi /\ a[i + 1] = b[j + 1]
    THEN 1 + MatchLen(a, b, i + 1, j + 1, ahi, bhi)
    ELSE 0

\* SequenceMatcher.find_longest_match: the longest common block of
\* a[alo:ahi] and b[blo:bhi], the one starting earliest in a, then in b
find_longest_match(a, b, alo, ahi, blo, bhi) ==
    LET blocks == { [i |-> i, j |-> j, size |-> MatchLen(a, b, i, j, ahi, bhi)] :
                        i \in alo..(ahi - 1), j \in blo..(bhi - 1) }
        found == { m \in blocks : m.size > 0 }
    IN  IF found = {} THEN [i |-> alo, j |-> blo, size |-> 0]
        ELSE CHOOSE m \in found :
                 \A o \in found :
                     \/ m.size > o.size
                     \/ m.size = o.size /\ m.i < o.i
                     \/ m.size = o.size /\ m.i = o.i /\ m.j <= o.j

\* SequenceMatcher.get_matching_blocks, before the closing sentinel
RECURSIVE matching_blocks(_, _, _, _, _, _)
matching_blocks(a, b, alo, ahi, blo, bhi) ==
    LET m == find_longest_match(a, b, alo, ahi, blo, bhi)
    IN  IF m.size = 0 THEN <<>>
        ELSE (IF alo < m.i /\ blo < m.j
              THEN matching_blocks(a, b, alo, m.i, blo, m.j) ELSE <<>>)
             \o <<m>>
             \o (IF m.i + m.size < ahi /\ m.j + m.size < bhi
                 THEN matching_blocks(a, b, m.i + m.size, ahi, m.j + m.size, bhi)
                 ELSE <<>>)

\* adjacent blocks are merged into one
RECURSIVE collapse(_)
collapse(blocks) ==
    IF Len(blocks) < 2 THEN blocks
    ELSE IF blocks[1].i + blocks[1].size = blocks[2].i
            /\ blocks[1].j + blocks[1].size = blocks[2].j
    THEN collapse(<<[blocks[1] EXCEPT !.size = @ + blocks[2].size]>>
                  \o SubSeq(blocks, 3, Len(blocks)))
    ELSE <<blocks[1]>> \o collapse(Tail(blocks))

get_matching_blocks(a, b) ==
    collapse(matching_blocks(a, b, 0, Len(a), 0, Len(b)))
    \o <<[i |-> Len(a), j |-> Len(b), size |-> 0]>>

\* SequenceMatcher.get_opcodes: from position (i, j), through the blocks left
RECURSIVE opcodes_from(_, _, _)
opcodes_from(i, j, blocks) ==
    IF blocks = <<>> THEN <<>>
    ELSE LET m == blocks[1]
             tag == IF i < m.i /\ j < m.j THEN "replace"
                    ELSE IF i < m.i THEN "delete"
                    ELSE IF j < m.j THEN "insert"
                    ELSE ""
         IN  (IF tag # "" THEN <<[tag |-> tag, i1 |-> i, i2 |-> m.i, j1 |-> j, j2 |-> m.j]>>
              ELSE <<>>)
             \o (IF m.size > 0
                 THEN <<[tag |-> "equal", i1 |-> m.i, i2 |-> m.i + m.size,
                         j1 |-> m.j, j2 |-> m.j + m.size]>>
                 ELSE <<>>)
             \o opcodes_from(m.i + m.size, m.j + m.size, Tail(blocks))

get_opcodes(a, b) == opcodes_from(0, 0, get_matching_blocks(a, b))

RECURSIVE SumSizes(_)
SumSizes(blocks) == IF blocks = <<>> THEN 0 ELSE blocks[1].size + SumSizes(Tail(blocks))

\* a ratio of the matches to the two lengths together
similarity_ratio_half(a, b) ==
    LET matches == SumSizes(get_matching_blocks(a, b))
        length == Len(a) + Len(b)
    IN  IF length = 0 THEN 1000
        ELSE (2 * 1000 * matches + length) \div (2 * length)

\* round(matcher.ratio() * 100, 1), in tenths of a percent: 100.0 is 1000.
\* ratio() is 2 * matches / (len(a) + len(b)), and 1.0 for two empty lists
similarity_ratio(a, b) ==
    LET matches == SumSizes(get_matching_blocks(a, b))
        length == Len(a) + Len(b)
    IN  IF length = 0 THEN 1000
        ELSE (2 * 2000 * matches + length) \div (2 * length)

\* the markup of a run of removed or added words
Span(open, words) == <<open>> \o escape(join(words)) \o <<"</span>">>

\* the pieces of inline_diff_html, one list entry each
RECURSIVE Segments(_, _, _)
Segments(ops, old_words, new_words) ==
    IF ops = <<>> THEN <<>>
    ELSE LET op == ops[1]
             removed == Slice(old_words, op.i1, op.i2)
             added == Slice(new_words, op.j1, op.j2)
         IN  (CASE op.tag = "equal" -> <<join(removed)>>
                [] op.tag = "delete" -> <<Span("<span class=\"diff-deleted\">", removed)>>
                [] op.tag = "insert" -> <<Span("<span class=\"diff-added\">", added)>>
                [] op.tag = "replace" -> <<Span("<span class=\"diff-deleted\">", removed), Span("<span class=\"diff-added\">", added)>>)
             \o Segments(Tail(ops), old_words, new_words)

\* re.sub(r'(\. )', r'\1\n\n', text)
RECURSIVE SentenceBreaks(_)
SentenceBreaks(text) ==
    IF text = <<>> THEN <<>>
    ELSE IF Len(text) >= 2 /\ text[1] = "." /\ text[2] = Space
    THEN <<".", Space, Newline, Newline>> \o SentenceBreaks(SubSeq(text, 3, Len(text)))
    ELSE <<text[1]>> \o SentenceBreaks(Tail(text))

\* re.sub(r'\n\n+', r'\n\n', text)
RECURSIVE CollapseBreaks(_)
CollapseBreaks(text) ==
    IF Len(text) >= 3 /\ text[1] = Newline /\ text[2] = Newline /\ text[3] = Newline
    THEN CollapseBreaks(Tail(text))
    ELSE IF text = <<>> THEN <<>>
    ELSE <<text[1]>> \o CollapseBreaks(Tail(text))

\* text[:n] + ('...' if words > many else '')
Shorten(text, n, words, many) == Take(text, n) \o (IF words > many THEN <<".", ".", ".">> ELSE <<>>)

\* key changes that list what a replace removed and what it added apart
RECURSIVE KeyChanges_split(_, _, _)
KeyChanges_split(ops, old_words, new_words) ==
    IF ops = <<>> THEN <<>>
    ELSE LET op == ops[1]
             removed == join(Slice(old_words, op.i1, op.i2))
             added == join(Slice(new_words, op.j1, op.j2))
             deletion == [type |-> "deletion",
                          text |-> Shorten(removed, KeyTextLen, op.i2 - op.i1, KeyTextWords),
                          context |-> "Removed content"]
             addition == [type |-> "addition",
                          text |-> Shorten(added, KeyTextLen, op.j2 - op.j1, KeyTextWords),
                          context |-> "Added content"]
         IN  (CASE op.tag = "equal" -> <<>>
                [] op.tag = "delete" -> <<deletion>>
                [] op.tag = "insert" -> <<addition>>
                [] op.tag = "replace" -> <<deletion, addition>>)
             \o KeyChanges_split(Tail(ops), old_words, new_words)

\* the key_changes entries of the opcodes that are not 'equal'
RECURSIVE KeyChanges(_, _, _)
KeyChanges(ops, old_words, new_words) ==
    IF ops = <<>> THEN <<>>
    ELSE LET op == ops[1]
             removed == join(Slice(old_words, op.i1, op.i2))
             added == join(Slice(new_words, op.j1, op.j2))
         IN  (CASE op.tag = "equal" -> <<>>
                [] op.tag = "delete" ->
                     <<[type |-> "deletion",
                        text |-> Shorten(removed, KeyTextLen, op.i2 - op.i1, KeyTextWords),
                        context |-> "Removed content"]>>
                [] op.tag = "insert" ->
                     <<[type |-> "addition",
                        text |-> Shorten(added, KeyTextLen, op.j2 - op.j1, KeyTextWords),
                        context |-> "Added content"]>>
                [] op.tag = "replace" ->
                     <<[type |-> "modification",
                        old_text |-> Shorten(removed, ModTextLen, op.i2 - op.i1, ModTextWords),
                        new_text |-> Shorten(added, ModTextLen, op.j2 - op.j1, ModTextWords),
                        context |-> "Modified content"]>>)
             \o KeyChanges(Tail(ops), old_words, new_words)

DiffPlaceholder == <<"Error generating diff visualization">>

\* the try block.  A prompt is <<>> (None) or <<text>>; None.split() raises
create_intelligent_diff_try(old_prompt, new_prompt) ==
    IF old_prompt = <<>> \/ new_prompt = <<>> THEN Throws
    ELSE LET old_words == split(old_prompt[1])
             new_words == split(new_prompt[1])
             ops == get_opcodes(old_words, new_words)
             changes == KeyChanges(ops, old_words, new_words)
         IN  Returns([inline_diff_html |->
                          CollapseBreaks(SentenceBreaks(join(Segments(ops, old_words, new_words)))),
                      changes_count |-> Len(SelectSeq(ops, LAMBDA op : op.tag # "equal")),
                      similarity_ratio |-> similarity_ratio(old_words, new_words),
                      key_changes |-> Take(changes, MaxKeyChanges),
                      original_prompt |-> old_prompt,
                      improved_prompt |-> new_prompt])

\* a handler that passes the exception on
create_intelligent_diff_except_reraise(old_prompt, new_prompt, outcome) == outcome

\* except Exception as e: the degraded result
create_intelligent_diff_except(old_prompt, new_prompt, outcome) ==
    IF outcome.exception
    THEN Returns([inline_diff_html |-> DiffPlaceholder,
                  changes_count |-> 0,
                  similarity_ratio |-> 0,
                  key_changes |-> <<>>,
                  original_prompt |-> old_prompt,
                  improved_prompt |-> new_prompt])
    ELSE outcome

create_intelligent_diff(old_prompt, new_prompt) ==
    create_intelligent_diff_except(old_prompt, new_prompt,
        create_intelligent_diff_try(old_prompt, new_prompt))

\* ------------------------------------------------ generate_refined_prompt
NoPatternsMsg == <<"N", "o", "n", "e">>     \* "No significant patterns found for improvement."
ErrorMsg == <<"E", "r", "r">>               \* f"Error generating improvements: {e}"

\* a guard that only looks for a missing analysis
NoPatterns_none_only(feedback_analysis) == feedback_analysis = <<>>

\* if not feedback_analysis or not feedback_analysis.get('misclassification_patterns')
NoPatterns(feedback_analysis) ==
    feedback_analysis = <<>> \/ feedback_analysis[1].misclassification_patterns = <<>>

\* a refinement whose two requests do not wait for each other
generate_refined_prompt_try_unordered(original_prompt, feedback_analysis, llm1, llm2) ==
    IF NoPatterns(feedback_analysis)
    THEN [exception |-> FALSE, improved_prompt |-> original_prompt,
          rationale |-> NoPatternsMsg, log |-> <<>>]
    ELSE IF llm1 = Raise \/ llm2 = Raise
    THEN [exception |-> TRUE, improved_prompt |-> <<>>, rationale |-> <<>>,
          log |-> <<"rationale", "refinement">>]
    ELSE [exception |-> FALSE, improved_prompt |-> strip(llm1), rationale |-> strip(llm2),
          log |-> <<"rationale", "refinement">>]

\* the try block.  llm1, llm2: what the refinement call and the rationale call
\* do when made; log: the completion calls made, in order; improved_prompt
\* and rationale: the return value, or the locals assigned when it raises
generate_refined_prompt_try(original_prompt, feedback_analysis, llm1, llm2) ==
    IF NoPatterns(feedback_analysis)
    THEN [exception |-> FALSE, improved_prompt |-> original_prompt,
          rationale |-> NoPatternsMsg, log |-> <<>>]
    ELSE IF llm1 = Raise
    THEN [exception |-> TRUE, improved_prompt |-> <<>>, rationale |-> <<>>,
          log |-> <<"refinement">>]
    ELSE IF llm2 = Raise
    THEN [exception |-> TRUE, improved_prompt |-> llm1, rationale |-> <<>>,
          log |-> <<"refinement", "rationale">>]
    ELSE [exception |-> FALSE, improved_prompt |-> strip(llm1), rationale |-> strip(llm2),
          log |-> <<"refinement", "rationale">>]

\* a handler that hands back what the refinement call had returned
generate_refined_prompt_except_partial(original_prompt, outcome) ==
    IF outcome.exception
    THEN [outcome EXCEPT !.exception = FALSE,
                         !.improved_prompt = IF Len(outcome.log) = 2 THEN strip(@)
                                             ELSE original_prompt,
                         !.rationale = ErrorMsg]
    ELSE outcome

\* except Exception as e: return original_prompt, f"Error generating improvements: {e}"
generate_refined_prompt_except(original_prompt, outcome) ==
    IF outcome.exception
    THEN [outcome EXCEPT !.exception = FALSE,
                         !.improved_prompt = original_prompt,
                         !.rationale = ErrorMsg]
    ELSE outcome

\* calls is the number of completion calls made
generate_refined_prompt(original_prompt, feedback_analysis, llm1, llm2) ==
    LET outcome == generate_refined_prompt_except(original_prompt,
                       generate_refined_prompt_try(original_prompt, feedback_analysis, llm1, llm2))
    IN  [improved_prompt |-> outcome.improved_prompt, rationale |-> outcome.rationale,
         calls |-> Len(outcome.log), log |-> outcome.log, exception |-> outcome.exception]

\* ------------------------------------------------------ session storage
\* One consolidated session object per session id, kept in
\* temp_results/session_<id>_object.json.  Of its sections the model keeps
\* prompt_data.initial_prompt, user_feedback, current_iteration_data and
\* prompt_data.iteration_history.
DefaultSessionObj ==
    [initial_prompt |-> <<>>, user_feedback |-> <<>>,
     current_iteration_data |-> <<>>, iteration_history |-> <<>>]

\* <<>> when the file does not exist
load_consolidated_session(fs, sid) == fs[sid]

\* None (<<>>) when there is no session object
get_consolidated_session_data(fs, sid, key) ==
    IF load_consolidated_session(fs, sid) = <<>> THEN <<>>
    ELSE load_consolidated_session(fs, sid)[1][key]

\* one file shared by every session
SaveTarget_shared(sid) == 1

\* the file a save writes: this session's own
SaveTarget(sid) == sid

save_consolidated_session_data(fs, sid, key, data) ==
    LET session_obj == IF load_consolidated_session(fs, sid) = <<>>
                       THEN DefaultSessionObj
                       ELSE load_consolidated_session(fs, sid)[1]
    IN  [fs EXCEPT ![SaveTarget(sid)] = <<[session_obj EXCEPT ![key] = data]>>]

\* The two files of one session, with every key of the session object:
\* store.object is <<>> (no file) or <<the session object>>, store.responses
\* is <<>> (no file) or <<the list in the responses file>>.  A section of the
\* session object is <<>> (key not there) or <<its value>>.  The values are
\* what json.dump writes and json.load reads back unchanged: strings, lists
\* and dicts with string keys, <<>> the empty one.

\* the 'responses' list of the file: an id and the text of each response
save_response_data(responses) ==
    [i \in 1..Len(responses) |-> [id |-> i, text |-> responses[i].text]]

\* [] when the file does not exist
load_response_data(store) ==
    IF store.responses = <<>> THEN <<>> ELSE store.responses[1]

save_consolidated_session_data_keyed(store, key, data) ==
    LET session_obj ==
            IF store.object = <<>>
            THEN [survey_metadata |-> <<>>, classes |-> <<>>, initial_prompt |-> <<>>,
                  user_feedback |-> << <<>> >>, iteration_history |-> <<>>,
                  current_iteration_data |-> << <<>> >>]
            ELSE store.object[1]
    IN  IF key = "survey_data"
        THEN [object |->
                <<[session_obj EXCEPT !.survey_metadata =
                     <<[title |-> data.title, description |-> data.description,
                        response_count |-> Len(data.responses),
                        response_ids |-> [i \in 1..Len(data.responses) |-> i]]>>]>>,
              \* `if responses:` -- an empty list leaves the file as it is
              responses |-> IF data.responses # <<>>
                            THEN <<save_response_data(data.responses)>>
                            ELSE store.responses]
        ELSE [store EXCEPT !.object = <<[session_obj EXCEPT ![key] = <<data>>]>>]

\* <<>> is None (no session object), otherwise <<the value>>
get_consolidated_session_data_keyed(store, key) ==
    IF store.object = <<>> THEN <<>>
    ELSE LET session_obj == store.object[1]
         IN  IF key = "survey_data"
             THEN <<[title |-> IF session_obj.survey_metadata = <<>> THEN <<>>
                               ELSE session_obj.survey_metadata[1].title,
                     description |-> IF session_obj.survey_metadata = <<>> THEN <<>>
                                     ELSE session_obj.survey_metadata[1].description,
                     responses |-> load_response_data(store)]>>
             ELSE IF session_obj[key] = <<>> THEN << <<>> >>
             ELSE session_obj[key]

\* SessionManager.clear -> cleanup_session_files
cleanup_session_files(fs, sid) == [fs EXCEPT ![sid] = <<>>]

\* the iteration counter lives in SessionManager.data
get_iteration_count(data) == data.count

increment_iteration_count(data) == [data EXCEPT !.count = get_iteration_count(data) + 1]

reset_iteration_count(data) == [data EXCEPT !.count = 0]


\* =========================================================== app_frontend
\* The Flask session is a signed cookie held by the browser:
\* [sid, step, count]; sid = 0 and step = 0 stand for a key that is not set,
\* and an iteration_count that is not set reads as 0.
NewCookie == [sid |-> 0, step |-> 0, count |-> 0]

\* what a handler hands back: the session it leaves (ck), whether it modified
\* the session (mod: only then the response carries a cookie), the files, the
\* last session id handed out, the JSON status, the completion calls made, and
\* the rationale of the refinement it accepted (<<>> when it accepted none)
Resp(ck, mod, fs, ns, status, calls) ==
    [ck |-> ck, mod |-> mod, fs |-> fs, ns |-> ns, status |-> status, calls |-> calls,
     accepted |-> <<>>]

\* the 'rationale' a handler writes into the history entry of the refinement
\* it applies
Accepting(r, rationale) == [r EXCEPT !.accepted = <<rationale>>]

\* get_backend: a browser without a session id gets a fresh one; the
\* SessionManager's data is the session without its id
get_backend(ck, ns) ==
    IF ck.sid = 0
    THEN [ck |-> [ck EXCEPT !.sid = ns + 1], ns |-> ns + 1, mod |-> TRUE]
    ELSE [ck |-> ck, ns |-> ns, mod |-> FALSE]

\* sync_session_data: session[key] = value for every key of the backend's data
sync_session_data(ck, data) == [ck EXCEPT !.step = data.step, !.count = data.count]

\* a sync assigns at least one key, which marks the session modified
SyncModifies(data) == data.step # 0 \/ data.count # 0

\* save_consolidated_session_data for a key the model does not keep
\* (survey_data, data_source_analysis, summary_instructions)
save_other_key(fs, sid) ==
    save_consolidated_session_data(fs, sid, "initial_prompt",
        IF load_consolidated_session(fs, sid) = <<>> THEN <<>>
        ELSE load_consolidated_session(fs, sid)[1].initial_prompt)

\* the session id the index route and step 1 force: a fresh uuid4.  (The id
\* get_backend may have handed out just before is dropped with the old session
\* and never names a file, so it is not counted.)
ForcedSid(old, fresh) == fresh

\* @app.route('/')
index(ck, fs, ns) ==
    LET sid     == ForcedSid(ck.sid, ns + 1)
        session == [sid |-> sid, step |-> 1, count |-> 0]
        fs1     == cleanup_session_files(fs, sid)
        \* backend.reset_iteration_count(): set on the backend, never synced back
        data    == reset_iteration_count([step |-> 1, count |-> 0])
    IN  Resp(session, TRUE, fs1, ns + 1, "new_session", 0)

\* @app.route('/step/<float:step_num>'); 75 stands for 7.5
show_step(ck, fs, ns, dev, step_num) ==
    IF step_num < 1 \/ (step_num > 6 /\ step_num \notin {75, 8})
    THEN Resp(ck, FALSE, fs, ns, "redirect", 0)
    ELSE IF step_num = 4 /\ ~dev
    THEN Resp(ck, FALSE, fs, ns, "redirect", 0)
    ELSE IF step_num = 1
    THEN LET sid == ForcedSid(ck.sid, ns + 1)
         IN  Resp([sid |-> sid, step |-> 1, count |-> 0], TRUE,
                  cleanup_session_files(fs, sid), ns + 1, "new_session", 0)
    ELSE LET b0 == get_backend(ck, ns)
         IN  Resp([b0.ck EXCEPT !.step = step_num], TRUE, fs, b0.ns, "page", 0)

\* @app.route('/process_step'); form = [valid, found, prompt]
process_step(ck, fs, ns, form) ==
    LET current_step == IF ck.step = 0 THEN 1 ELSE ck.step
        b0 == get_backend(ck, ns)
        sid0 == b0.ck.sid
    IN  IF current_step \notin 1..4
        THEN Resp(b0.ck, b0.mod, fs, b0.ns, "redirect", 0)
        ELSE IF ~form.valid
        THEN Resp(b0.ck, TRUE, fs, b0.ns, "redirect", 0)
        ELSE IF current_step = 1
        THEN LET sid == ns + 1
                 ck1 == [ck EXCEPT !.sid = sid]
             IN  IF form.found
                 THEN Resp(sync_session_data(ck1, ck1), TRUE,
                           save_other_key(fs, sid), ns + 1, "new_session", 1)
                 ELSE Resp(ck1, TRUE, fs, ns + 1, "new_session", 0)
        ELSE IF current_step = 2
        THEN Resp(sync_session_data(b0.ck, b0.ck), TRUE,
                  save_other_key(fs, sid0), b0.ns, "redirect", 1)
        ELSE Resp(sync_session_data(b0.ck, b0.ck), TRUE,
                  save_consolidated_session_data(fs, sid0, "initial_prompt", form.prompt),
                  b0.ns, "redirect", IF current_step = 3 THEN 1 ELSE 0)


\* the results a web session can load: run_inference never stores any,
\* because SummaryPromptBackend has no run_individual_inference
WebResults == <<>>

\* the entry a handler appends to iteration_history
HistoryEntry(iteration, kind) == [iteration |-> iteration, kind |-> kind]

\* a limit that lets one refinement too many through
CanIterate_inclusive(current_iteration) == current_iteration <= MaxIterations

\* the guard of submit_feedback: changes_count > 0 and current_iteration < 3
CanIterate(current_iteration) == current_iteration < MaxIterations

\* a limit that is reached one refinement too late
IterationLimitReached_late(current_iteration) == current_iteration > MaxIterations

\* the guard of iterate_prompt: current_iteration >= 3
IterationLimitReached(current_iteration) == current_iteration >= MaxIterations

\* production mode: the improved prompt is applied without review
AutoApply(fs, sid, data, refined) ==
    LET fs1   == save_consolidated_session_data(fs, sid, "initial_prompt", refined.improved_prompt)
        data1 == increment_iteration_count(data)
        hist  == Append(get_consolidated_session_data(fs1, sid, "iteration_history"),
                        HistoryEntry(get_iteration_count(data1), "auto_applied"))
        fs2   == save_consolidated_session_data(fs1, sid, "iteration_history", hist)
        fs3   == save_consolidated_session_data(fs2, sid, "current_iteration_data", <<>>)
    IN  [fs |-> fs3, data |-> data1]

\* @app.route('/submit_feedback'); feedback_data is the request's JSON
submit_feedback(ck, fs, ns, dev, feedback_data, llm1, llm2) ==
    LET b0  == get_backend(ck, ns)
        sid == b0.ck.sid
    IN  IF feedback_data = <<>>
           \/ \E i \in 1..Len(feedback_data[1].feedback) :
                 LET idx == feedback_data[1].feedback[i].index
                 IN  idx < Len(WebResults) /\ IndexError(WebResults, idx)
        THEN Resp(b0.ck, b0.mod, fs, b0.ns, "error", 0)
        ELSE
        LET fs1 == save_consolidated_session_data(fs, sid, "user_feedback", feedback_data)
            ck1 == sync_session_data(b0.ck, b0.ck)
            mod1 == b0.mod \/ SyncModifies(b0.ck)
            changes_count == feedback_data[1].changes_count
            current_iteration == get_iteration_count(b0.ck)
        IN  IF changes_count > 0 /\ CanIterate(current_iteration)
            THEN
              LET original_prompt   == get_consolidated_session_data(fs1, sid, "initial_prompt")
                  feedback_analysis == analyze_feedback_patterns(feedback_data, WebResults)
                  refined == generate_refined_prompt(original_prompt, feedback_analysis, llm1, llm2)
              IN  IF feedback_analysis = <<>>
                  THEN Resp(ck1, mod1, fs1, b0.ns, "error", 0)
                  ELSE IF dev
                  THEN LET iteration_data ==
                               [iteration_number |-> current_iteration + 1,
                                original_prompt  |-> original_prompt,
                                improved_prompt  |-> refined.improved_prompt,
                                rationale        |-> refined.rationale]
                           fs2  == save_consolidated_session_data(fs1, sid,
                                       "current_iteration_data", <<iteration_data>>)
                           hist == Append(get_consolidated_session_data(fs2, sid, "iteration_history"),
                                          HistoryEntry(current_iteration + 1, "pending_review"))
                           fs3  == save_consolidated_session_data(fs2, sid, "iteration_history", hist)
                       IN  Resp(sync_session_data(ck1, ck1), TRUE, fs3, b0.ns, "iterate", refined.calls)
                  ELSE LET applied == AutoApply(fs1, sid, ck1, refined)
                       IN  Accepting(Resp(sync_session_data(ck1, applied.data), TRUE,
                                          applied.fs, b0.ns, "iterate", refined.calls),
                                     refined.rationale)
            ELSE IF changes_count = 0
            THEN Resp(ck1, mod1, fs1, b0.ns, "no_changes", 0)
            ELSE Resp(ck1, mod1, fs1, b0.ns, "max_iterations", 0)

\* @app.route('/iterate_prompt')
iterate_prompt(ck, fs, ns, llm1, llm2) ==
    LET b0  == get_backend(ck, ns)
        sid == b0.ck.sid
        current_iteration == get_iteration_count(b0.ck)
        user_feedback   == get_consolidated_session_data(fs, sid, "user_feedback")
        original_prompt == get_consolidated_session_data(fs, sid, "initial_prompt")
        feedback_analysis == analyze_feedback_patterns(user_feedback, WebResults)
        refined == generate_refined_prompt(original_prompt, feedback_analysis, llm1, llm2)
    IN  IF IterationLimitReached(current_iteration)
        THEN Resp(b0.ck, b0.mod, fs, b0.ns, "error", 0)
        ELSE IF user_feedback = <<>> \/ user_feedback[1].feedback = <<>>
        THEN Resp(b0.ck, b0.mod, fs, b0.ns, "error", 0)
        ELSE IF feedback_analysis = <<>>
        THEN Resp(b0.ck, b0.mod, fs, b0.ns, "error", 0)
        ELSE LET iteration_data ==
                     [iteration_number |-> current_iteration + 1,
                      original_prompt  |-> original_prompt,
                      improved_prompt  |-> refined.improved_prompt,
                      rationale        |-> refined.rationale]
                 fs1 == save_consolidated_session_data(fs, sid,
                            "current_iteration_data", <<iteration_data>>)
             IN  Resp(sync_session_data(b0.ck, b0.ck), b0.mod \/ SyncModifies(b0.ck),
                      fs1, b0.ns, "success", refined.calls)

\* an approval that stores the prompt the refinement started from
approve_iteration_original(ck, fs, ns) ==
    LET b0  == get_backend(ck, ns)
        sid == b0.ck.sid
        iteration_data == get_consolidated_session_data(fs, sid, "current_iteration_data")
    IN  IF iteration_data = <<>>
        THEN Resp(b0.ck, b0.mod, fs, b0.ns, "error", 0)
        ELSE LET data1 == increment_iteration_count(b0.ck)
                 iteration_count == get_iteration_count(data1)
                 fs1  == save_consolidated_session_data(fs, sid, "initial_prompt",
                             iteration_data[1].original_prompt)
                 hist == Append(get_consolidated_session_data(fs1, sid, "iteration_history"),
                                HistoryEntry(iteration_count, "approved"))
                 fs2  == save_consolidated_session_data(fs1, sid, "iteration_history", hist)
                 fs3  == save_consolidated_session_data(fs2, sid, "current_iteration_data", <<>>)
             IN  Accepting(Resp(sync_session_data(b0.ck, data1), TRUE, fs3, b0.ns, "success", 0),
                           iteration_data[1].rationale)

\* an approval that leaves the pending iteration data in place
approve_iteration_kept(ck, fs, ns) ==
    LET b0  == get_backend(ck, ns)
        sid == b0.ck.sid
        iteration_data == get_consolidated_session_data(fs, sid, "current_iteration_data")
    IN  IF iteration_data = <<>>
        THEN Resp(b0.ck, b0.mod, fs, b0.ns, "error", 0)
        ELSE LET data1 == increment_iteration_count(b0.ck)
                 iteration_count == get_iteration_count(data1)
                 fs1  == save_consolidated_session_data(fs, sid, "initial_prompt",
                             iteration_data[1].improved_prompt)
                 hist == Append(get_consolidated_session_data(fs1, sid, "iteration_history"),
                                HistoryEntry(iteration_count, "approved"))
                 fs2  == save_consolidated_session_data(fs1, sid, "iteration_history", hist)
             IN  Accepting(Resp(sync_session_data(b0.ck, data1), TRUE, fs2, b0.ns, "success", 0),
                           iteration_data[1].rationale)

\* @app.route('/approve_iteration')
approve_iteration(ck, fs, ns) ==
    LET b0  == get_backend(ck, ns)
        sid == b0.ck.sid
        iteration_data == get_consolidated_session_data(fs, sid, "current_iteration_data")
    IN  IF iteration_data = <<>>
        THEN Resp(b0.ck, b0.mod, fs, b0.ns, "error", 0)
        ELSE LET data1 == increment_iteration_count(b0.ck)
                 iteration_count == get_iteration_count(data1)
                 fs1  == save_consolidated_session_data(fs, sid, "initial_prompt",
                             iteration_data[1].improved_prompt)
                 hist == Append(get_consolidated_session_data(fs1, sid, "iteration_history"),
                                HistoryEntry(iteration_count, "approved"))
                 fs2  == save_consolidated_session_data(fs1, sid, "iteration_history", hist)
                 fs3  == save_consolidated_session_data(fs2, sid, "current_iteration_data", <<>>)
             IN  Accepting(Resp(sync_session_data(b0.ck, data1), TRUE, fs3, b0.ns, "success", 0),
                           iteration_data[1].rationale)

\* a rejection that counts as an iteration
reject_iteration_counted(ck, fs, ns) ==
    LET b0  == get_backend(ck, ns)
        sid == b0.ck.sid
        fs1 == save_consolidated_session_data(fs, sid, "current_iteration_data", <<>>)
    IN  Resp(sync_session_data(b0.ck, increment_iteration_count(b0.ck)), TRUE,
             fs1, b0.ns, "success", 0)

\* @app.route('/reject_iteration')
reject_iteration(ck, fs, ns) ==
    LET b0  == get_backend(ck, ns)
        sid == b0.ck.sid
        fs1 == save_consolidated_session_data(fs, sid, "current_iteration_data", <<>>)
    IN  Resp(sync_session_data(b0.ck, b0.ck), b0.mod \/ SyncModifies(b0.ck),
             fs1, b0.ns, "success", 0)


\* =========================================================== app_terminal
\* TerminalInterface: where run() stands (pc), the backend's session id and
\* iteration count, workflow_data, and the refinement _run_iteration holds
\* while it asks for approval (gen)
Names == { <<"H">>, <<"L">> }
ExampleResponses == << [text |-> <<"t">>] >>

NewTerminal(sid) ==
    [pc |-> "step1", sid |-> sid, count |-> 0, survey |-> FALSE, classes |-> {},
     initial_prompt |-> <<>>, user_feedback |-> <<>>, results |-> <<>>, gen |-> <<>>]

\* SummaryPromptBackend has neither method; the terminal calls both at step 2.
\* Each call either raises (AttributeError with the class as it is) or gives
\* the categories of a backend that has the method
generate_smart_summary_types(outcome) == IF outcome = "raise" THEN {} ELSE Names

generate_default_classes == Names

TResp(t, fs, ns, status, calls) ==
    [t |-> t, fs |-> fs, ns |-> ns, status |-> status, calls |-> calls,
     accepted |-> <<>>]

step_1_select_survey(t, fs, ns, choice) ==
    IF choice = "exit" THEN TResp([t EXCEPT !.pc = "exit"], fs, ns, "exit", 0)
    ELSE IF choice = "back" THEN TResp(t, fs, ns, "back", 0)
    ELSE TResp([t EXCEPT !.survey = TRUE, !.pc = "step2"],
               save_other_key(fs, t.sid), ns, "next", 0)

\* outcome: what generate_smart_summary_types does; fallback: what
\* generate_default_classes does when called in the except clause, where an
\* exception is not caught: run() reports it and returns
step_2_summary_description(t, fs, ns, outcome, fallback) ==
    IF outcome = "raise" /\ fallback = "raise"
    THEN TResp([t EXCEPT !.pc = "exit"], fs, ns, "error", 1)
    ELSE LET classes == IF outcome = "raise" THEN generate_default_classes
                        ELSE generate_smart_summary_types(outcome)
         IN  TResp([t EXCEPT !.classes = classes, !.pc = "step3"],
                   save_other_key(fs, t.sid), ns, "next", 1)

\* generate_initial_summary_prompt falls back to generate_template_summary_prompt,
\* which raises NameError (score_description): run() reports it and returns
step_3_generate_classes(t, fs, ns, choice, llm) ==
    IF t.classes = {} \/ choice = "b"
    THEN TResp([t EXCEPT !.pc = "step2"], fs, ns, "back", 0)
    ELSE IF llm = Raise
    THEN TResp([t EXCEPT !.pc = "exit"], fs, ns, "error", 1)
    ELSE TResp([t EXCEPT !.initial_prompt = strip(llm), !.pc = "step4"],
               save_consolidated_session_data(fs, t.sid, "initial_prompt", strip(llm)),
               ns, "next", 1)

step_4_review_prompt(t, fs, ns, choice, new_prompt) ==
    IF t.initial_prompt = <<>> \/ choice = "b"
    THEN TResp([t EXCEPT !.pc = "step3"], fs, ns, "back", 0)
    ELSE IF choice = "e"
    THEN TResp([t EXCEPT !.initial_prompt = new_prompt, !.pc = "step5"],
               save_consolidated_session_data(fs, t.sid, "initial_prompt", new_prompt),
               ns, "next", 0)
    ELSE TResp([t EXCEPT !.pc = "step5"], fs, ns, "next", 0)

step_5_run_inference(t, fs, ns, reply) ==
    IF ~t.survey THEN TResp([t EXCEPT !.pc = "step1"], fs, ns, "back", 0)
    ELSE IF t.initial_prompt = <<>> THEN TResp([t EXCEPT !.pc = "step4"], fs, ns, "back", 0)
    ELSE LET results == run_batch_inference(ExampleResponses, reply)
         IN  IF results = <<>>
             THEN TResp([t EXCEPT !.pc = "step4"], fs, ns, "back", 1)
             ELSE TResp([t EXCEPT !.results = results, !.pc = "step6"],
                        save_other_key(fs, t.sid), ns, "next", 1)

\* corrections: what the user entered before 'done'
step_6_provide_feedback(t, fs, ns, corrections) ==
    IF t.results = <<>> THEN TResp([t EXCEPT !.pc = "step5"], fs, ns, "back", 0)
    ELSE IF Len(corrections) > 0
    THEN LET feedback_data == <<[feedback |-> corrections, changes_count |-> Len(corrections)]>>
         IN  TResp([t EXCEPT !.user_feedback = feedback_data, !.pc = "step7"],
                   save_consolidated_session_data(fs, t.sid, "user_feedback", feedback_data),
                   ns, "corrected", 0)
    ELSE TResp([t EXCEPT !.pc = "step7"], fs, ns, "next", 0)

\* step 7 up to the approval prompt of _run_iteration
step_7_final_results(t, fs, ns, improve, llm1, llm2) ==
    LET feedback_corrections == IF t.user_feedback = <<>> THEN <<>>
                                ELSE t.user_feedback[1].feedback
        iteration_count == get_iteration_count(t)
    IN  IF t.results = <<>> THEN TResp([t EXCEPT !.pc = "exit"], fs, ns, "error", 0)
        ELSE IF iteration_count < MaxIterations /\ feedback_corrections # <<>> /\ improve = "y"
        THEN LET feedback_analysis == analyze_feedback_patterns(t.user_feedback, t.results)
                 refined == generate_refined_prompt(t.initial_prompt, feedback_analysis, llm1, llm2)
             IN  IF feedback_analysis = <<>>
                 THEN TResp([t EXCEPT !.pc = "options"], fs, ns, "error", 0)
                 ELSE TResp([t EXCEPT !.gen = <<[improved_prompt |-> refined.improved_prompt,
                                                 rationale |-> refined.rationale]>>,
                                      !.pc = "approve"],
                            fs, ns, "generated", refined.calls)
        ELSE TResp([t EXCEPT !.pc = "options"], fs, ns,
                   IF improve = "y" THEN "refused" ELSE "done", 0)

\* _run_iteration from the approval prompt on
_run_iteration(t, fs, ns, approve) ==
    IF approve = "y"
    THEN LET t1   == increment_iteration_count(t)
             fs1  == save_consolidated_session_data(fs, t.sid, "initial_prompt",
                         t.gen[1].improved_prompt)
             hist == Append(get_consolidated_session_data(fs1, t.sid, "iteration_history"),
                            HistoryEntry(get_iteration_count(t1), "approved"))
             fs2  == save_consolidated_session_data(fs1, t.sid, "iteration_history", hist)
         IN  Accepting(TResp([t1 EXCEPT !.initial_prompt = t.gen[1].improved_prompt,
                                        !.gen = <<>>, !.pc = "step5"],
                             fs2, ns, "success", 0),
                       t.gen[1].rationale)
    ELSE TResp([t EXCEPT !.gen = <<>>, !.pc = "options"], fs, ns, "cancelled", 0)

\* "1. Start new workflow": self.__init__() builds a new backend and SessionManager
start_over(t, fs, ns, choice) ==
    IF choice = "1" THEN TResp(NewTerminal(ns + 1), fs, ns + 1, "new_session", 0)
    ELSE TResp([t EXCEPT !.pc = "exit"], fs, ns, "exit", 0)


\* ================================================================= state
VARIABLES
    program,     \* what runs: "web", "terminal", or one function alone ("analyze", ...)
    DEV_MODE,    \* the DEV_MODE environment variable of the web process
    cookie,      \* per browser: the Flask session it holds
    files,       \* per session id: <<>> or <<the consolidated session object>>
    nextSid,     \* the last session id handed out
    inflight,    \* per slot: <<>> or <<a request being handled>>
    term,        \* the TerminalInterface
    ev,          \* the last request answered, the last terminal step taken
    call         \* <<>> or <<a call of the function that runs alone: arguments, outcome>>

vars == <<program, DEV_MODE, cookie, files, nextSid, inflight, term, ev, call>>

Sids == 1..MaxSid
\* the files that can be named: the one past MaxSid is never written
FileIds == 1..(MaxSid + 1)
Slots == 1..MaxInflight

NoEvent ==
    [op |-> "none", client |-> 0, sid |-> 0, status |-> "none", calls |-> 0, accepted |-> <<>>]

\* ------------------------------------------------------- request inputs

Correction(idx, original, new, feedback) ==
    [index |-> idx, original_classification |-> original,
     new_classification |-> new, feedback |-> feedback]

\* the JSON bodies a browser posts to /submit_feedback: none, no feedback,
\* one correction, one correction with a negative index
WebFeedback ==
    { <<>>,
      <<[feedback |-> <<>>, changes_count |-> 0]>>,
      <<[feedback |-> <<Correction(0, <<"H">>, <<"L">>, <<>>)>>, changes_count |-> 1]>>,
      <<[feedback |-> <<Correction(0 - 1, <<"H">>, <<"L">>, <<>>)>>, changes_count |-> 1]>> }

InitialPrompts == { <<"p">> }
Forms == { [valid |-> v, found |-> f, prompt |-> p] :
             v \in BOOLEAN, f \in {TRUE}, p \in InitialPrompts }
StepNums == {1, 3}
\* the rationale call succeeds whenever the refinement call did: a failure of
\* either leaves a handler with the same fallback
WebRationales == { <<"r", Space>> }

\* ------------------------------------------------------------- actions
PendingReviews(history) ==
    Cardinality({i \in 1..Len(history) : history[i].kind = "pending_review"})

WithinBounds(r) ==
    /\ r.ns <= MaxSid
    /\ r.ck.count <= CountCap
    /\ \A s \in Sids : r.fs[s] # <<>> =>
          /\ PendingReviews(r.fs[s][1].iteration_history) <= MaxPendingReview
          /\ Len(r.fs[s][1].iteration_history) <= MaxHistory

\* the response reaches the browser, which keeps its cookie when it has one
Deliver(c, op, r) ==
    /\ WithinBounds(r)
    /\ cookie' = [cookie EXCEPT ![c] = IF r.mod THEN r.ck ELSE @]
    /\ files' = r.fs
    /\ nextSid' = r.ns
    /\ ev' = [op |-> op, client |-> c, sid |-> r.ck.sid, status |-> r.status,
              calls |-> r.calls, accepted |-> r.accepted]

\* a request handled from its arrival to its response with nothing in between
Respond(c, op, r) ==
    /\ Deliver(c, op, r)
    /\ UNCHANGED <<program, DEV_MODE, inflight, term, call>>

Index(c) ==
    /\ program = "web"
    /\ Respond(c, "index", index(cookie[c], files, nextSid))

ShowStep(c, I) ==
    /\ program = "web"
    /\ \E step_num \in I.steps :
         Respond(c, "show_step", show_step(cookie[c], files, nextSid, DEV_MODE, step_num))

ProcessStep(c, I) ==
    /\ program = "web"
    /\ \E form \in I.forms :
         Respond(c, "process_step", process_step(cookie[c], files, nextSid, form))

SubmitFeedback(c, I) ==
    /\ program = "web"
    /\ \E feedback_data \in I.feedback, llm1 \in I.llm1, llm2 \in I.llm2 :
         Respond(c, "submit_feedback",
                 submit_feedback(cookie[c], files, nextSid, DEV_MODE, feedback_data, llm1, llm2))

IteratePrompt(c, I) ==
    /\ program = "web"
    /\ \E llm1 \in I.llm1, llm2 \in I.llm2 :
         Respond(c, "iterate_prompt", iterate_prompt(cookie[c], files, nextSid, llm1, llm2))

ApproveIteration(c) ==
    /\ program = "web"
    /\ Respond(c, "approve_iteration", approve_iteration(cookie[c], files, nextSid))

RejectIteration(c) ==
    /\ program = "web"
    /\ Respond(c, "reject_iteration", reject_iteration(cookie[c], files, nextSid))

\* what the browsers send: every input of the model
AllInputs ==
    [steps |-> StepNums, forms |-> Forms, feedback |-> WebFeedback,
     llm1 |-> LlmOutcomes, llm2 |-> WebRationales]

WebRequest(c, I) ==
    \/ Index(c)
    \/ ShowStep(c, I)
    \/ ProcessStep(c, I)
    \/ SubmitFeedback(c, I)
    \/ IteratePrompt(c, I)
    \/ ApproveIteration(c)
    \/ RejectIteration(c)

\* ------------------------------------------------------ terminal steps
TermReplies == { [kind |-> "raise"],
                 [kind |-> "json", scores |-> [i \in {0} |-> <<"H", Space>>]] }

\* the corrections step 6 accepts: a valid response number, a category name
TermCorrections(results) ==
    { <<>> } \cup { << Correction(0, results[1].ai_classification, <<"L">>, <<>>) >> }

TRespond(op, r) ==
    /\ r.ns <= MaxSid
    /\ r.t.count <= CountCap
    /\ term' = r.t
    /\ files' = r.fs
    /\ nextSid' = r.ns
    /\ ev' = [op |-> op, client |-> 0, sid |-> r.t.sid, status |-> r.status,
              calls |-> r.calls, accepted |-> r.accepted]
    /\ UNCHANGED <<program, DEV_MODE, cookie, inflight, call>>

Step1 ==
    /\ program = "terminal" /\ term.pc = "step1"
    /\ \E choice \in {"example", "back", "exit"} :
         TRespond("step_1", step_1_select_survey(term, files, nextSid, choice))

Step2 ==
    /\ program = "terminal" /\ term.pc = "step2"
    /\ \E outcome \in {"ok", "raise"}, fallback \in {"ok", "raise"} :
         TRespond("step_2", step_2_summary_description(term, files, nextSid, outcome, fallback))

Step3 ==
    /\ program = "terminal" /\ term.pc = "step3"
    /\ \E choice \in {"c", "b"}, llm \in LlmOutcomes :
         TRespond("step_3", step_3_generate_classes(term, files, nextSid, choice, llm))

Step4 ==
    /\ program = "terminal" /\ term.pc = "step4"
    /\ \E choice \in {"c", "e", "b"}, new_prompt \in InitialPrompts :
         TRespond("step_4", step_4_review_prompt(term, files, nextSid, choice, new_prompt))

Step5 ==
    /\ program = "terminal" /\ term.pc = "step5"
    /\ \E reply \in TermReplies :
         TRespond("step_5", step_5_run_inference(term, files, nextSid, reply))

Step6 ==
    /\ program = "terminal" /\ term.pc = "step6"
    /\ \E corrections \in TermCorrections(term.results) :
         TRespond("step_6", step_6_provide_feedback(term, files, nextSid, corrections))

Step7 ==
    /\ program = "terminal" /\ term.pc = "step7"
    /\ \E improve \in {"y", "n"}, llm1 \in LlmOutcomes, llm2 \in WebRationales :
         TRespond("step_7", step_7_final_results(term, files, nextSid, improve, llm1, llm2))

RunIteration ==
    /\ program = "terminal" /\ term.pc = "approve"
    /\ \E approve \in {"y", "n"} :
         TRespond("_run_iteration", _run_iteration(term, files, nextSid, approve))

StartOver ==
    /\ program = "terminal" /\ term.pc = "options"
    /\ \E choice \in {"1", "2"} :
         TRespond("start_over", start_over(term, files, nextSid, choice))

TerminalStep ==
    \/ Step1
    \/ Step2
    \/ Step3
    \/ Step4
    \/ Step5
    \/ Step6
    \/ Step7
    \/ RunIteration
    \/ StartOver

\* ------------------------------------------------------- specifications
\* the web server with fresh browsers, or the terminal program just started
Init ==
    /\ program \in {"web", "terminal"}
    /\ DEV_MODE \in (IF program = "web" THEN BOOLEAN ELSE {FALSE})
    /\ cookie = [c \in Clients |-> NewCookie]
    /\ files = [s \in FileIds |-> <<>>]
    /\ nextSid = (IF program = "terminal" THEN 1 ELSE 0)
    /\ inflight = [k \in Slots |-> <<>>]
    /\ term = NewTerminal(IF program = "terminal" THEN 1 ELSE 0)
    /\ ev = NoEvent
    /\ call = <<>>

\* one browser, one request at a time; or the terminal
Next ==
    \/ WebRequest(1, AllInputs)
    \/ TerminalStep

Spec == Init /\ [][Next]_vars

\* ------------------------------------------- two browsers, two sessions
\* what the browsers send when two of them are at work
FewInputs ==
    [steps |-> {3}, forms |-> {f \in Forms : f.valid}, feedback |-> {f \in WebFeedback : f # <<>>},
     llm1 |-> Bodies, llm2 |-> WebRationales]

InitMulti == Init /\ program = "web"

NextMulti == \E c \in Clients : WebRequest(c, FewInputs)

SpecMulti == InitMulti /\ [][NextMulti]_vars

\* ------------------------------ one browser, requests handled in parallel
\* app.run serves every request on a thread of its own.  A request carries the
\* cookie the browser held when it was sent; its handler runs when it is
\* answered, and the browser stores the cookie of each response as it arrives.
\* The pages that send these requests belong to a session: only the first
\* request of a browser goes out without a session id.
ParallelOps == {"submit_feedback", "iterate_prompt", "approve_iteration", "reject_iteration"}

Handle(req, fs, ns, dev, feedback_data, llm1, llm2) ==
    CASE req.op = "submit_feedback"   -> submit_feedback(req.ck, fs, ns, dev, feedback_data, llm1, llm2)
      [] req.op = "iterate_prompt"    -> iterate_prompt(req.ck, fs, ns, llm1, llm2)
      [] req.op = "approve_iteration" -> approve_iteration(req.ck, fs, ns)
      [] req.op = "reject_iteration"  -> reject_iteration(req.ck, fs, ns)

SendRequest(k) ==
    /\ program = "web"
    /\ inflight[k] = <<>>
    /\ cookie[1].sid # 0 \/ \A j \in Slots : inflight[j] = <<>>
    /\ \E op \in ParallelOps :
         inflight' = [inflight EXCEPT ![k] = <<[op |-> op, ck |-> cookie[1]]>>]
    /\ UNCHANGED <<program, DEV_MODE, cookie, files, nextSid, term, ev, call>>

AnswerRequest(k) ==
    /\ program = "web"
    /\ inflight[k] # <<>>
    /\ \E feedback_data \in FewInputs.feedback, llm1 \in FewInputs.llm1, llm2 \in FewInputs.llm2 :
         Deliver(1, inflight[k][1].op,
                 Handle(inflight[k][1], files, nextSid, DEV_MODE, feedback_data, llm1, llm2))
    /\ inflight' = [inflight EXCEPT ![k] = <<>>]
    /\ UNCHANGED <<program, DEV_MODE, term, call>>

InitParallel == Init /\ program = "web"

NextParallel ==
    \/ \E k \in Slots : SendRequest(k)
    \/ \E k \in Slots : AnswerRequest(k)

SpecParallel == InitParallel /\ [][NextParallel]_vars

\* ------------------------------------ analyze_feedback_patterns alone
MaxCorrections == 3
MaxResults == 2
MaxBatch == 5

RECURSIVE SeqsUpTo(_, _)
SeqsUpTo(S, n) ==
    IF n = 0 THEN { <<>> }
    ELSE LET shorter == SeqsUpTo(S, n - 1)
         IN  shorter \cup { Append(q, x) : q \in {r \in shorter : Len(r) = n - 1}, x \in S }

\* indexes in range, one past the end, and negative ones down to below -len
CorrectionInputs ==
    { Correction(i, o, n, <<>>) :
        i \in {0 - (MaxResults + 1), 0 - 1, 0, MaxResults},
        o \in { <<"H">> }, n \in Names }

ResultInputs ==
    { [i \in 1..n |-> [response_text |-> <<"t">>]] : n \in 0..MaxResults }

\* category names are free text: two plain ones and one that holds an arrow
AnalyzeNames == Names \cup { <<"H", Space, Arrow, Space, "H">> }

\* corrections of every pair of categories, all of the first response
PairInputs == { Correction(0, o, n, <<>>) : o \in AnalyzeNames, n \in AnalyzeNames }

Feedback(q) == <<[feedback |-> q, changes_count |-> Len(q)]>>

\* None and short batches with every kind of index
FeedbackInputs ==
    { <<>> } \cup { Feedback(q) : q \in SeqsUpTo(CorrectionInputs, MaxCorrections) }

\* the calls made: the short batches with every list of results, longer
\* batches of pairs with the longest list
AnalyzeInputs ==
    (FeedbackInputs \X ResultInputs)
    \cup ({ Feedback(q) : q \in SeqsUpTo(PairInputs, MaxBatch) }
            \X { r \in ResultInputs : Len(r) = MaxResults })

InitAnalyze ==
    /\ program = "analyze"
    /\ DEV_MODE = FALSE
    /\ cookie = [c \in Clients |-> NewCookie]
    /\ files = [s \in FileIds |-> <<>>]
    /\ nextSid = 0
    /\ inflight = [k \in Slots |-> <<>>]
    /\ term = NewTerminal(0)
    /\ ev = NoEvent
    /\ \E x \in AnalyzeInputs :
         call = <<[feedback_data |-> x[1], results |-> x[2],
                   returned |-> FALSE, raised |-> FALSE, value |-> <<>>]>>

Analyze ==
    /\ program = "analyze"
    /\ ~call[1].returned
    /\ LET outcome == analyze_feedback_patterns_call(call[1].feedback_data, call[1].results)
       IN  call' = <<[call[1] EXCEPT !.returned = TRUE,
                                     !.raised = outcome.exception,
                                     !.value = outcome.value]>>
    /\ UNCHANGED <<program, DEV_MODE, cookie, files, nextSid, inflight, term, ev>>

SpecAnalyze == InitAnalyze /\ [][Analyze]_vars

\* ------------------------------------------ run_batch_inference alone
MaxResponses == 2

\* the completion call raises, its text holds no JSON, or it holds a JSON
\* object with a classification for some of the response indexes: a category
\* name, one with trailing blanks, a string that is no category name, a value
\* that is no text
InferenceReplies ==
    { [kind |-> "raise"], [kind |-> "unparsable"] }
    \cup { [kind |-> "json", scores |-> f] :
             f \in UNION { [d -> Names \cup { <<"H", Space>>, <<"X">>, NotText }] :
                           d \in SUBSET (0..(MaxResponses - 1)) } }

InitInference ==
    /\ program = "inference"
    /\ DEV_MODE = FALSE
    /\ cookie = [c \in Clients |-> NewCookie]
    /\ files = [s \in FileIds |-> <<>>]
    /\ nextSid = 0
    /\ inflight = [k \in Slots |-> <<>>]
    /\ term = NewTerminal(0)
    /\ ev = NoEvent
    /\ \E responses \in SeqsUpTo({ [text |-> <<"a">>], [text |-> <<"b">>] }, MaxResponses),
          reply \in InferenceReplies :
         call = <<[responses |-> responses, reply |-> reply,
                   returned |-> FALSE, raised |-> FALSE, value |-> <<>>]>>

Inference ==
    /\ program = "inference"
    /\ ~call[1].returned
    /\ LET outcome == run_batch_inference_call(call[1].responses, call[1].reply)
       IN  call' = <<[call[1] EXCEPT !.returned = TRUE,
                                     !.raised = outcome.exception,
                                     !.value = outcome.value]>>
    /\ UNCHANGED <<program, DEV_MODE, cookie, files, nextSid, inflight, term, ev>>

SpecInference == InitInference /\ [][Inference]_vars

\* -------------------------------------- create_intelligent_diff alone
MaxWords == 3
LongChanges == 6

\* prompt texts: words joined by one blank, and texts with other whitespace
\* and with a character that html.escape rewrites
DiffTexts ==
    { join(words) : words \in SeqsUpTo({ <<"a">>, <<"b">>, <<"c", ".">> }, MaxWords) }
    \cup { <<Space>>, <<Space, "a", Space, Space, "b", Newline>>, <<"<", Space, "a">> }
    \* long texts that differ in more places than key_changes keeps
    \cup { join([i \in 1..LongChanges |-> <<"a">>]) }
    \cup { join([i \in 1..(2 * LongChanges) |-> IF i % 2 = 1 THEN <<"a">> ELSE word]) :
             word \in { <<"b">>, <<"c", ".">> } }

\* a prompt is None or a text
DiffPrompts == { <<>> } \cup { <<text>> : text \in DiffTexts }

InitDiff ==
    /\ program = "diff"
    /\ DEV_MODE = FALSE
    /\ cookie = [c \in Clients |-> NewCookie]
    /\ files = [s \in FileIds |-> <<>>]
    /\ nextSid = 0
    /\ inflight = [k \in Slots |-> <<>>]
    /\ term = NewTerminal(0)
    /\ ev = NoEvent
    /\ \E old_prompt \in DiffPrompts, new_prompt \in DiffPrompts :
         call = <<[old_prompt |-> old_prompt, new_prompt |-> new_prompt,
                   returned |-> FALSE, raised |-> FALSE, value |-> <<>>]>>

Diff ==
    /\ program = "diff"
    /\ ~call[1].returned
    /\ LET outcome == create_intelligent_diff(call[1].old_prompt, call[1].new_prompt)
       IN  call' = <<[call[1] EXCEPT !.returned = TRUE,
                                     !.raised = outcome.exception,
                                     !.value = IF outcome.exception THEN <<>>
                                               ELSE <<outcome.value>>]>>
    /\ UNCHANGED <<program, DEV_MODE, cookie, files, nextSid, inflight, term, ev>>

SpecDiff == InitDiff /\ [][Diff]_vars

\* -------------------------------------- generate_refined_prompt alone
\* analyses: None, one without patterns, those of one and of two corrections
RefineAnalyses ==
    { <<>>,
      <<[total_corrections |-> 0, misclassification_patterns |-> <<>>,
         category_confusion_matrix |-> <<>>, common_errors |-> <<>>,
         specific_examples |-> <<>>]>> }
    \cup { analyze_feedback_patterns(Feedback(q), <<>>) :
             q \in { <<Correction(0, <<"H">>, <<"L">>, <<>>)>>,
                     <<Correction(0, <<"H">>, <<"L">>, <<>>),
                       Correction(0, <<"H">>, <<"L">>, <<>>)>> } }

InitRefine ==
    /\ program = "refine"
    /\ DEV_MODE = FALSE
    /\ cookie = [c \in Clients |-> NewCookie]
    /\ files = [s \in FileIds |-> <<>>]
    /\ nextSid = 0
    /\ inflight = [k \in Slots |-> <<>>]
    /\ term = NewTerminal(0)
    /\ ev = NoEvent
    /\ \E \* prompts: none, a plain one, one with a leading blank
          original_prompt \in { <<>>, <<"p">>, <<Space, "p">> },
          feedback_analysis \in RefineAnalyses,
          \* a completion call raises, or returns a body: text, nothing, blanks
          llm1 \in Bodies \cup { <<>>, <<Space>>, Raise },
          llm2 \in { <<"r", Space>>, Raise, <<>> } :
         call = <<[original_prompt |-> original_prompt, feedback_analysis |-> feedback_analysis,
                   llm1 |-> llm1, llm2 |-> llm2,
                   returned |-> FALSE, raised |-> FALSE,
                   improved_prompt |-> <<>>, rationale |-> <<>>, log |-> <<>>]>>

Refine ==
    /\ program = "refine"
    /\ ~call[1].returned
    /\ LET refined == generate_refined_prompt(call[1].original_prompt,
                           call[1].feedback_analysis, call[1].llm1, call[1].llm2)
       IN  call' = <<[call[1] EXCEPT !.returned = TRUE,
                                     !.raised = refined.exception,
                                     !.improved_prompt = refined.improved_prompt,
                                     !.rationale = refined.rationale,
                                     !.log = refined.log]>>
    /\ UNCHANGED <<program, DEV_MODE, cookie, files, nextSid, inflight, term, ev>>

SpecRefine == InitRefine /\ [][Refine]_vars

\* ------------------------------------------- the session's files alone
MaxStored == 2

\* what a save is given: survey data with up to MaxStored responses, and for
\* every other key an empty and a non-empty value
StorageValues(key) ==
    IF key = "survey_data"
    THEN { [title |-> title, description |-> <<"D">>,
            responses |-> [i \in 1..Len(texts) |-> [text |-> texts[i]]]] :
             title \in { <<"T">>, <<"U">> },
             texts \in SeqsUpTo({ <<"a">>, <<"b">> }, MaxStored) }
    ELSE { <<>>, <<key>> }

InitStorage ==
    /\ program = "storage"
    /\ DEV_MODE = FALSE
    /\ cookie = [c \in Clients |-> NewCookie]
    /\ files = [s \in FileIds |-> <<>>]
    /\ nextSid = 0
    /\ inflight = [k \in Slots |-> <<>>]
    /\ term = NewTerminal(0)
    /\ ev = NoEvent
    /\ call = <<[store |-> [object |-> <<>>, responses |-> <<>>],
                 key |-> "none", data |-> <<>>, got |-> <<>>]>>

\* save_consolidated_session_data(key, data), then
\* get_consolidated_session_data(key)
Storage ==
    /\ program = "storage"
    /\ \E key \in { "survey_data", "classes", "initial_prompt", "user_feedback",
                    "iteration_history", "current_iteration_data" } :
         \E data \in StorageValues(key) :
           LET store == save_consolidated_session_data_keyed(call[1].store, key, data)
           IN  call' = <<[store |-> store, key |-> key, data |-> data,
                          got |-> get_consolidated_session_data_keyed(store, key)]>>
    /\ UNCHANGED <<program, DEV_MODE, cookie, files, nextSid, inflight, term, ev>>

SpecStorage == InitStorage /\ [][Storage]_vars

\* ================================================================ claims
StoredPrompt(fs, sid) ==
    IF sid = 0 THEN <<>>
    ELSE IF fs[sid] = <<>> THEN <<>> ELSE fs[sid][1].initial_prompt

Pending(fs, sid) ==
    IF sid = 0 THEN <<>>
    ELSE IF fs[sid] = <<>> THEN <<>> ELSE fs[sid][1].current_iteration_data

History(fs, sid) ==
    IF sid = 0 THEN <<>>
    ELSE IF fs[sid] = <<>> THEN <<>> ELSE fs[sid][1].iteration_history

StoredFeedback(fs, sid) ==
    IF sid = 0 THEN <<>>
    ELSE IF fs[sid] = <<>> THEN <<>> ELSE fs[sid][1].user_feedback

\* C1: in every reachable state of a web session (either DEV_MODE) and of the
\* terminal, the session's iteration count is between 0 and 3.
C1_CountWithinLimit ==
    /\ \A c \in Clients : cookie[c].count \in 0..MaxIterations
    /\ term.count \in 0..MaxIterations

\* the third refinement of a web session has just been approved
C1_Witness ==
    /\ ev.op = "approve_iteration" /\ ev.status = "success"
    /\ cookie[1].count = MaxIterations

\* C2: a request to refine (submit_feedback, iterate_prompt, terminal step 7)
\* made at an iteration count of 3 or more makes no completion call and changes
\* neither the stored prompt nor the count; below 3, iterate_prompt with stored
\* corrections and step 7 with corrections do make the refinement call.
C2_RefusedAtLimit ==
    [][ /\ \A c \in Clients :
             (ev'.client = c /\ ev'.op \in {"submit_feedback", "iterate_prompt"}) =>
                /\ cookie[c].count >= MaxIterations =>
                     /\ ev'.calls = 0
                     /\ cookie'[c].count = cookie[c].count
                     /\ cookie'[c].sid = cookie[c].sid
                     /\ StoredPrompt(files', cookie[c].sid) = StoredPrompt(files, cookie[c].sid)
                /\ ( /\ cookie[c].count < MaxIterations
                     /\ ev'.op = "iterate_prompt"
                     /\ StoredFeedback(files, cookie[c].sid) # <<>>
                     /\ StoredFeedback(files, cookie[c].sid)[1].feedback # <<>> ) =>
                     ev'.calls > 0
        /\ (ev'.op = "step_7" /\ term.pc = "step7") =>
                /\ term.count >= MaxIterations =>
                     /\ ev'.calls = 0
                     /\ term'.pc = "options"
                     /\ term'.count = term.count
                     /\ term'.initial_prompt = term.initial_prompt
                     /\ StoredPrompt(files', term.sid) = StoredPrompt(files, term.sid)
                /\ ( /\ term.count < MaxIterations
                     /\ ev'.status = "generated" ) => ev'.calls > 0
      ]_vars

\* a refinement request has just been refused at the limit
C2_Witness ==
    /\ ev.op = "iterate_prompt" /\ ev.status = "error" /\ ev.calls = 0
    /\ cookie[1].count = MaxIterations
    /\ StoredFeedback(files, cookie[1].sid) # <<>>
    /\ StoredFeedback(files, cookie[1].sid)[1].feedback # <<>>

\* the rationales generate_refined_prompt returns when it generated nothing
FallbackRationales == {NoPatternsMsg, ErrorMsg}

\* C3: whenever the iteration count of a session goes up, the step has
\* accepted a refinement (approved it, or auto-applied it in production mode)
\* whose rationale is a generated one, not a fallback of
\* generate_refined_prompt.
C3_IncrementOnlyAfterGenerated ==
    [][ ( \/ \E c \in Clients : cookie'[c].count > cookie[c].count
          \/ term'.count > term.count )
        => ( /\ ev'.accepted # <<>>
             /\ ev'.accepted[1] \notin FallbackRationales )
      ]_vars

\* C4: rejecting a pending refinement (reject_iteration, or any answer but
\* "y" at the terminal's approval prompt) leaves the iteration count, the
\* stored prompt, the stored feedback and the history as they were, and leaves
\* no pending iteration data.
C4_RejectKeepsCountAndPrompt ==
    [][ /\ \A c \in Clients :
             (ev'.client = c /\ ev'.op = "reject_iteration") =>
                LET sid == cookie'[c].sid
                IN  /\ cookie'[c].count = cookie[c].count
                    /\ cookie[c].sid # 0 => sid = cookie[c].sid
                    /\ StoredPrompt(files', sid) = StoredPrompt(files, sid)
                    /\ StoredFeedback(files', sid) = StoredFeedback(files, sid)
                    /\ History(files', sid) = History(files, sid)
                    /\ Pending(files', sid) = <<>>
                    /\ \A s \in FileIds \ {sid} : files'[s] = files[s]
        /\ (ev'.op = "_run_iteration" /\ ev'.status = "cancelled") =>
                /\ term'.count = term.count
                /\ term'.initial_prompt = term.initial_prompt
                /\ term'.gen = <<>>
                /\ files' = files
      ]_vars

\* a refinement generated in dev mode after one accepted refinement has just
\* been rejected: the pending data is gone, count and prompt are those of the
\* first refinement
C4_Witness ==
    /\ DEV_MODE
    /\ ev.op = "reject_iteration" /\ ev.status = "success"
    /\ cookie[1].count = 1
    /\ StoredPrompt(files, cookie[1].sid) # <<>>
    /\ History(files, cookie[1].sid) # <<>>
    /\ History(files, cookie[1].sid)[Len(History(files, cookie[1].sid))].kind = "pending_review"
    /\ Pending(files, cookie[1].sid) = <<>>

\* C6: a session that has just been started (index route, step 1 page,
\* example selection at step 1, the terminal's "Start new workflow") has an
\* iteration count of 0.
C6_NewSessionStartsAtZero ==
    ev.status = "new_session" =>
        /\ ev.client \in Clients => cookie[ev.client].count = 0
        /\ ev.client = 0 => term.count = 0

\* C5: within a session the iteration count never goes down, whether the
\* requests are handled one after the other or in parallel.
C5_CountNeverDecreases ==
    [][ \A c \in Clients :
          cookie'[c].sid = cookie[c].sid => cookie'[c].count >= cookie[c].count
      ]_vars

\* every response a browser holding ck can get to a request of kind op
WebOutcomes(op, ck, fs, ns, dev, I) ==
    CASE op = "index"             -> { index(ck, fs, ns) }
      [] op = "approve_iteration" -> { approve_iteration(ck, fs, ns) }
      [] op = "reject_iteration"  -> { reject_iteration(ck, fs, ns) }
      [] op = "show_step"         ->
            { show_step(ck, fs, ns, dev, step_num) : step_num \in I.steps }
      [] op = "process_step"      -> { process_step(ck, fs, ns, form) : form \in I.forms }
      [] op = "submit_feedback"   ->
            { submit_feedback(ck, fs, ns, dev, x[1], x[2], x[3]) :
                x \in I.feedback \X I.llm1 \X I.llm2 }
      [] op = "iterate_prompt"    ->
            { iterate_prompt(ck, fs, ns, x[1], x[2]) : x \in I.llm1 \X I.llm2 }
      [] OTHER                    -> {}

\* the files with the session object of sid replaced by another one
Replaced(fs, sid, obj) == IF sid = 0 THEN fs ELSE [fs EXCEPT ![sid] = obj]

\* a session object unlike any the other session holds
OtherObject ==
    << [DefaultSessionObj EXCEPT
          !.initial_prompt = <<"o">>,
          !.current_iteration_data =
              <<[iteration_number |-> 1, improved_prompt |-> <<"o">>, rationale |-> <<"o">>]>>] >>

\* C7: with two browsers in two sessions, a request of one browser changes
\* neither the other browser's session (its iteration count) nor the other
\* session's file (prompt, feedback, pending data, history), and reads nothing
\* of them: the response, the browser's new session and its session's file
\* are those the request gets when the other session's file is replaced by a
\* different one.
C7_SessionsIsolated ==
    [][ \A c \in Clients : \A d \in Clients \ {c} :
          (ev'.client = c /\ cookie[c].sid # cookie[d].sid) =>
             /\ cookie'[d] = cookie[d]
             /\ cookie[d].sid # 0 => files'[cookie[d].sid] = files[cookie[d].sid]
             /\ \E r \in WebOutcomes(ev'.op, cookie[c],
                                     Replaced(files, cookie[d].sid, OtherObject),
                                     nextSid, DEV_MODE, FewInputs) :
                   /\ r.status = ev'.status
                   /\ r.calls = ev'.calls
                   /\ r.accepted = ev'.accepted
                   /\ r.ck.sid = ev'.sid
                   /\ r.mod => r.ck = cookie'[c]
                   /\ ~r.mod => cookie'[c] = cookie[c]
                   /\ r.fs[ev'.sid] = files'[ev'.sid]
      ]_vars

\* browser 2 has just had a refinement approved in its session while the
\* session of browser 1 holds a prompt, feedback and an iteration count of its own
C7_Witness ==
    /\ ev.client = 2 /\ ev.op = "approve_iteration" /\ ev.status = "success"
    /\ cookie[1].sid # 0 /\ cookie[2].sid # 0 /\ cookie[1].sid # cookie[2].sid
    /\ cookie[1].count = 1 /\ cookie[2].count = 2
    /\ StoredPrompt(files, cookie[1].sid) # <<>>
    /\ StoredFeedback(files, cookie[1].sid) # <<>>

\* ------------------------------------------ analyze_feedback_patterns
Corrections(c) == IF c.feedback_data = <<>> THEN <<>> ELSE c.feedback_data[1].feedback

OutOfRange(idx, results) == idx >= Len(results) \/ idx < 0

\* C8: a correction whose index is out of range of the results (too large, or
\* negative) does not make the analysis fail: the analysis is not None and the
\* example recorded for that correction has an empty response snippet.
C8_OutOfRangeIndex ==
    call # <<>> /\ call[1].returned =>
        \A i \in 1..Len(Corrections(call[1])) :
            OutOfRange(Corrections(call[1])[i].index, call[1].results) =>
                /\ call[1].value # <<>>
                /\ call[1].value[1].specific_examples[i].response_text = <<>>

\* C9: no entry of misclassification_patterns holds more than two examples.
C9_AtMostTwoExamples ==
    (call # <<>> /\ call[1].returned /\ call[1].value # <<>>) =>
        \A j \in 1..Len(call[1].value[1].misclassification_patterns) :
            Len(call[1].value[1].misclassification_patterns[j].examples) <= 2

RECURSIVE SumCounts(_)
SumCounts(mp) == IF mp = <<>> THEN 0 ELSE Head(mp).count + SumCounts(Tail(mp))

\* C10: in an analysis that is not None, total_corrections is the number of
\* corrections submitted and the sum of the counts of all pattern entries.
C10_TotalIsSumOfCounts ==
    (call # <<>> /\ call[1].returned /\ call[1].value # <<>>) =>
        /\ call[1].value[1].total_corrections = Len(Corrections(call[1]))
        /\ call[1].value[1].total_corrections =
               SumCounts(call[1].value[1].misclassification_patterns)

\* three corrections analysed into two patterns, one of them seen twice
C10_Witness ==
    /\ call # <<>> /\ call[1].returned /\ call[1].value # <<>>
    /\ call[1].value[1].total_corrections = MaxCorrections
    /\ Len(call[1].value[1].misclassification_patterns) = 2
    /\ \E j \in 1..2 : call[1].value[1].misclassification_patterns[j].count = 2

\* the pair of a correction, and what the batch says about a pair
Pair(c) == <<c.original_classification, c.new_classification>>

PairsOf(corrections) == { Pair(corrections[i]) : i \in 1..Len(corrections) }

Occurrences(corrections, pair) ==
    Cardinality({i \in 1..Len(corrections) : Pair(corrections[i]) = pair})

FirstSeen(corrections, pair) ==
    CHOOSE i \in 1..Len(corrections) :
        /\ Pair(corrections[i]) = pair
        /\ \A j \in 1..(i - 1) : Pair(corrections[j]) # pair

\* C11: common_errors lists exactly the (original, new) pairs that occur more
\* than once in the batch, each once, under its pattern and with its number
\* of occurrences as count, ordered by count descending and, among equal
\* counts, by first occurrence in the batch.
C11_CommonErrors ==
    (call # <<>> /\ call[1].returned /\ call[1].value # <<>>) =>
        LET corrections == Corrections(call[1])
            ce == call[1].value[1].common_errors
            repeated == { pr \in PairsOf(corrections) : Occurrences(corrections, pr) > 1 }
        IN  \E order \in [1..Len(ce) -> repeated] :
              /\ \A pr \in repeated : \E i \in 1..Len(ce) : order[i] = pr
              /\ \A i \in 1..Len(ce) :
                    /\ ce[i].pattern = pattern_key(order[i][1], order[i][2])
                    /\ ce[i].count = Occurrences(corrections, order[i])
              /\ \A i \in 1..Len(ce) : \A j \in (i + 1)..Len(ce) :
                    /\ order[i] # order[j]
                    /\ ce[i].count >= ce[j].count
                    /\ ce[i].count = ce[j].count =>
                          FirstSeen(corrections, order[i]) < FirstSeen(corrections, order[j])

\* C12: for every pair (original, new) with corrections in the batch,
\* category_confusion_matrix[original][new] is the number of those corrections
\* and so is the count of the misclassification_patterns entry of the pair; a
\* pair without corrections has no matrix entry.
C12_MatrixMatchesPatterns ==
    (call # <<>> /\ call[1].returned /\ call[1].value # <<>>) =>
        LET corrections == Corrections(call[1])
            matrix == call[1].value[1].category_confusion_matrix
            mp == call[1].value[1].misclassification_patterns
        IN  \A o \in AnalyzeNames, n \in AnalyzeNames :
              IF Occurrences(corrections, <<o, n>>) = 0
              THEN o \notin DOMAIN matrix \/ n \notin DOMAIN matrix[o]
              ELSE /\ o \in DOMAIN matrix /\ n \in DOMAIN matrix[o]
                   /\ matrix[o][n] = Occurrences(corrections, <<o, n>>)
                   /\ KeyPos(mp, pattern_key(o, n)) # 0
                   /\ mp[KeyPos(mp, pattern_key(o, n))].count
                         = Occurrences(corrections, <<o, n>>)

\* C13: analyze_feedback_patterns raises nothing: it returns None for a
\* batch that is missing or holds no corrections, returns None when a
\* subscript of results fails during the aggregation, and leaves the batch
\* and the results it was given as they were.
C13_AnalyzeNeverRaises ==
    /\ [](call # <<>> /\ call[1].returned =>
            /\ ~call[1].raised
            /\ Corrections(call[1]) = <<>> => call[1].value = <<>>
            /\ (\E i \in 1..Len(Corrections(call[1])) :
                   Corrections(call[1])[i].index < 0 - Len(call[1].results))
                  => call[1].value = <<>>)
    /\ [][ call # <<>> =>
             /\ call'[1].feedback_data = call[1].feedback_data
             /\ call'[1].results = call[1].results ]_vars

\* a call whose second correction made results[index] fail has returned None
C13_Witness ==
    /\ call # <<>> /\ call[1].returned /\ ~call[1].raised /\ call[1].value = <<>>
    /\ Len(Corrections(call[1])) = 2
    /\ Corrections(call[1])[1].index = 0
    /\ Corrections(call[1])[2].index < 0 - Len(call[1].results)
    /\ Len(call[1].results) = MaxResults

\* ------------------------------------------- generate_refined_prompt
\* the call got past the no-patterns guard
Refining(c) ==
    c.feedback_analysis # <<>> /\ c.feedback_analysis[1].misclassification_patterns # <<>>

\* C14: when the refinement call raises, or the rationale call raises after
\* the refinement call returned, generate_refined_prompt raises nothing and
\* returns the original prompt as it was given, with the error description.
C14_FallbackOnException ==
    (call # <<>> /\ call[1].returned /\ Refining(call[1])
       /\ (call[1].llm1 = Raise \/ call[1].llm2 = Raise)) =>
        /\ ~call[1].raised
        /\ call[1].improved_prompt = call[1].original_prompt
        /\ call[1].rationale = ErrorMsg

\* the rationale call failed after the refinement call had returned text: the
\* prompt returned is the original one
C14_Witness ==
    /\ call # <<>> /\ call[1].returned /\ Refining(call[1])
    /\ call[1].llm1 \in Bodies /\ call[1].llm2 = Raise
    /\ call[1].original_prompt = <<Space, "p">>
    /\ call[1].improved_prompt = <<Space, "p">>
    /\ call[1].log = <<"refinement", "rationale">>

\* C15: when a completion call returns an empty or blank body,
\* generate_refined_prompt returns the original prompt with the error
\* description; for a non-empty original prompt it never returns an empty
\* improved prompt.
C15_EmptyBodyIsFailure ==
    (call # <<>> /\ call[1].returned /\ Refining(call[1])) =>
        /\ ( \/ (call[1].llm1 # Raise /\ strip(call[1].llm1) = <<>>)
             \/ (call[1].llm1 # Raise /\ call[1].llm2 # Raise /\ strip(call[1].llm2) = <<>>) )
              => ( /\ call[1].improved_prompt = call[1].original_prompt
                   /\ call[1].rationale = ErrorMsg )
        /\ call[1].original_prompt # <<>> => call[1].improved_prompt # <<>>

\* C16: with an analysis that is None or has no misclassification patterns,
\* generate_refined_prompt returns the original prompt and the fixed
\* no-patterns message and makes no completion call.
C16_NoPatternsNoCalls ==
    (call # <<>> /\ call[1].returned /\ ~Refining(call[1])) =>
        /\ ~call[1].raised
        /\ call[1].improved_prompt = call[1].original_prompt
        /\ call[1].rationale = NoPatternsMsg
        /\ call[1].log = <<>>

\* an analysis that is there but holds no pattern, answered without a call
C16_Witness ==
    /\ call # <<>> /\ call[1].returned
    /\ call[1].feedback_analysis # <<>>
    /\ call[1].feedback_analysis[1].misclassification_patterns = <<>>
    /\ call[1].llm1 \in Bodies
    /\ call[1].original_prompt = <<"p">>
    /\ call[1].rationale = NoPatternsMsg /\ call[1].log = <<>>

\* C17: with patterns, one invocation makes the refinement call once and
\* first, then the rationale call once and only when the refinement call
\* returned: never more than two calls, none repeated, no rationale call
\* after a failed refinement call.
C17_TwoCallsInOrder ==
    (call # <<>> /\ call[1].returned /\ Refining(call[1])) =>
        /\ Len(call[1].log) <= 2
        /\ call[1].log # <<>> /\ call[1].log[1] = "refinement"
        /\ Len(call[1].log) = 2 => call[1].log[2] = "rationale"
        /\ call[1].llm1 = Raise => call[1].log = <<"refinement">>
        /\ call[1].llm1 # Raise => call[1].log = <<"refinement", "rationale">>

\* the refinement call failed and the rationale call was not made
C17_Witness ==
    /\ call # <<>> /\ call[1].returned /\ Refining(call[1])
    /\ call[1].llm1 = Raise /\ call[1].llm2 \notin {Raise, <<>>}
    /\ call[1].log = <<"refinement">>
    /\ call[1].rationale = ErrorMsg

\* ----------------------------------------------- run_batch_inference
\* C18: every result of run_batch_inference is labelled with the name of an
\* active category or with 'error'; a classification the model returned that
\* is no category name is not a label.
C18_LabelsAreCategories ==
    (call # <<>> /\ call[1].returned) =>
        \A i \in 1..Len(call[1].value) :
            call[1].value[i].ai_classification \in Names \cup {ErrorLabel}

\* ---------------------------------------------- create_intelligent_diff
\* C19: for a non-empty text x, create_intelligent_diff(x, x) returns
\* changes_count 0, no key_changes and similarity_ratio 100.0; and
\* create_intelligent_diff('', '') raises nothing and returns changes_count 0.
C19_IdenticalPromptsNoChanges ==
    (call # <<>> /\ call[1].returned
       /\ call[1].old_prompt # <<>> /\ call[1].new_prompt = call[1].old_prompt) =>
        /\ ~call[1].raised
        /\ call[1].value[1].changes_count = 0
        /\ call[1].old_prompt[1] # <<>> =>
              /\ call[1].value[1].key_changes = <<>>
              /\ call[1].value[1].similarity_ratio = 1000

\* a prompt of two sentences compared with itself
C19_Witness ==
    /\ call # <<>> /\ call[1].returned
    /\ call[1].old_prompt = << <<"c", ".", Space, "a">> >>
    /\ call[1].new_prompt = call[1].old_prompt
    /\ call[1].value[1].similarity_ratio = 1000
    /\ call[1].value[1].changes_count = 0

\* C20: create_intelligent_diff raises for no pair of inputs; when it fails
\* inside (a prompt that is None) it returns the degraded result:
\* changes_count 0, similarity_ratio 0, no key_changes, the placeholder text
\* as inline rendering, and the two prompts as they were given.
C20_DiffNeverRaises ==
    (call # <<>> /\ call[1].returned) =>
        /\ ~call[1].raised
        /\ call[1].value # <<>>
        /\ call[1].value[1].original_prompt = call[1].old_prompt
        /\ call[1].value[1].improved_prompt = call[1].new_prompt
        /\ (call[1].old_prompt = <<>> \/ call[1].new_prompt = <<>>) =>
              /\ call[1].value[1].changes_count = 0
              /\ call[1].value[1].similarity_ratio = 0
              /\ call[1].value[1].key_changes = <<>>
              /\ call[1].value[1].inline_diff_html = DiffPlaceholder

\* no old prompt, a new prompt: the degraded result carries both
C20_Witness ==
    /\ call # <<>> /\ call[1].returned
    /\ call[1].old_prompt = <<>> /\ call[1].new_prompt = << <<"a">> >>
    /\ call[1].value # <<>>
    /\ call[1].value[1].inline_diff_html = DiffPlaceholder
    /\ call[1].value[1].improved_prompt = << <<"a">> >>

\* the opcodes of a finished call that are not 'equal', in order
Changes(c) ==
    SelectSeq(get_opcodes(split(c.old_prompt[1]), split(c.new_prompt[1])),
              LAMBDA op : op.tag # "equal")

\* the type key_changes gives to an opcode
ChangeType(tag) ==
    CASE tag = "delete" -> "deletion"
      [] tag = "insert" -> "addition"
      [] tag = "replace" -> "modification"

\* C21: changes_count is the number of opcodes that are not 'equal', a
\* replace counted once; key_changes holds the first min(5, changes_count)
\* of them in their order, typed deletion, addition, modification for
\* delete, insert, replace.
C21_KeyChangesAreFirstFive ==
    (call # <<>> /\ call[1].returned
       /\ call[1].old_prompt # <<>> /\ call[1].new_prompt # <<>>) =>
        LET changes == Changes(call[1])
            result == call[1].value[1]
        IN  /\ result.changes_count = Len(changes)
            /\ Len(result.key_changes) =
                  (IF Len(changes) < MaxKeyChanges THEN Len(changes) ELSE MaxKeyChanges)
            /\ \A k \in 1..Len(result.key_changes) :
                  result.key_changes[k].type = ChangeType(changes[k].tag)

\* six words replaced: six changes counted, five modifications kept
C21_Witness ==
    /\ call # <<>> /\ call[1].returned
    /\ call[1].old_prompt # <<>> /\ call[1].new_prompt # <<>>
    /\ call[1].value[1].changes_count > MaxKeyChanges
    /\ Len(call[1].value[1].key_changes) = MaxKeyChanges
    /\ call[1].value[1].key_changes[MaxKeyChanges].type = "modification"

\* the runs of an inline rendering, in output order: the text outside the
\* markup (kind "equal") and the text inside each span ("removed", "added")
RECURSIVE RenderedRuns(_, _, _)
RenderedRuns(text, kind, seen) ==
    LET run == IF split(seen) = <<>> /\ kind = "equal" THEN <<>>
               ELSE <<[kind |-> kind, words |-> split(seen)]>>
    IN  IF text = <<>> THEN run
        ELSE IF text[1] = "<span class=\"diff-deleted\">"
        THEN run \o RenderedRuns(Tail(text), "removed", <<>>)
        ELSE IF text[1] = "<span class=\"diff-added\">"
        THEN run \o RenderedRuns(Tail(text), "added", <<>>)
        ELSE IF text[1] = "</span>"
        THEN run \o RenderedRuns(Tail(text), "equal", <<>>)
        ELSE RenderedRuns(Tail(text), kind, Append(seen, text[1]))

\* the words of the runs of the kinds given, concatenated
RECURSIVE RunWords(_, _)
RunWords(runs, kinds) ==
    IF runs = <<>> THEN <<>>
    ELSE (IF runs[1].kind \in kinds THEN runs[1].words ELSE <<>>) \o RunWords(Tail(runs), kinds)

\* the kinds of runs the opcodes call for
RECURSIVE RunKinds(_)
RunKinds(ops) ==
    IF ops = <<>> THEN <<>>
    ELSE (CASE ops[1].tag = "equal" -> <<"equal">>
            [] ops[1].tag = "delete" -> <<"removed">>
            [] ops[1].tag = "insert" -> <<"added">>
            [] ops[1].tag = "replace" -> <<"removed", "added">>) \o RunKinds(Tail(ops))

\* C22: the runs of the inline rendering partition both inputs: the equal
\* and removed runs, in output order, are the words of the old prompt; the
\* equal and added runs are the words of the new prompt; a replace gives its
\* removed run and directly after it its added run.
C22_RunsPartitionInputs ==
    (call # <<>> /\ call[1].returned
       /\ call[1].old_prompt # <<>> /\ call[1].new_prompt # <<>>) =>
        LET runs == RenderedRuns(call[1].value[1].inline_diff_html, "equal", <<>>)
            old_words == split(call[1].old_prompt[1])
            new_words == split(call[1].new_prompt[1])
        IN  /\ RunWords(runs, {"equal", "removed"}) = old_words
            /\ RunWords(runs, {"equal", "added"}) = new_words
            /\ [k \in 1..Len(runs) |-> runs[k].kind] = RunKinds(get_opcodes(old_words, new_words))

\* the same for prompts without a character that html.escape rewrites
C22_PlainRunsPartitionInputs ==
    (call # <<>> /\ call[1].returned
       /\ call[1].old_prompt # <<>> /\ call[1].new_prompt # <<>>
       /\ escape(call[1].old_prompt[1]) = call[1].old_prompt[1]
       /\ escape(call[1].new_prompt[1]) = call[1].new_prompt[1]) =>
        LET runs == RenderedRuns(call[1].value[1].inline_diff_html, "equal", <<>>)
            old_words == split(call[1].old_prompt[1])
            new_words == split(call[1].new_prompt[1])
        IN  /\ RunWords(runs, {"equal", "removed"}) = old_words
            /\ RunWords(runs, {"equal", "added"}) = new_words
            /\ [k \in 1..Len(runs) |-> runs[k].kind] = RunKinds(get_opcodes(old_words, new_words))

\* ------------------------------------------------------ approve_iteration
\* C23: approve_iteration succeeds exactly while the session holds pending
\* iteration data; without it the answer is an error and neither the
\* iteration count nor the stored prompt changes, so a refinement is approved
\* at most once: an approval right after an approval is an error.
C23_ApproveNeedsPending ==
    [][ \A c \in Clients :
          (ev'.client = c /\ ev'.op = "approve_iteration") =>
             LET pending == Pending(files, cookie[c].sid)
             IN  /\ ev'.status = "success" <=> pending # <<>>
                 /\ pending = <<>> =>
                      /\ ev'.status = "error"
                      /\ cookie'[c].count = cookie[c].count
                      /\ files' = files
                 /\ (ev.client = c /\ ev.op = "approve_iteration" /\ ev.status = "success")
                      => ev'.status = "error"
      ]_vars

\* an approval refused in a session that has approved a refinement before
\* and holds no pending one
C23_Witness ==
    /\ ev.op = "approve_iteration" /\ ev.status = "error" /\ ev.client = 1
    /\ cookie[1].sid # 0 /\ cookie[1].count = 1
    /\ \E k \in 1..Len(History(files, cookie[1].sid)) :
          History(files, cookie[1].sid)[k].kind = "approved"
    /\ Pending(files, cookie[1].sid) = <<>>

\* C24: after a successful approve_iteration the stored prompt is the
\* improved_prompt of the pending refinement (the one generated last), the
\* iteration count is one more than before, and no iteration data is pending.
C24_ApproveAppliesPending ==
    [][ \A c \in Clients :
          (ev'.client = c /\ ev'.op = "approve_iteration" /\ ev'.status = "success") =>
             LET sid == cookie[c].sid
             IN  /\ cookie'[c].sid = sid
                 /\ Pending(files, sid) # <<>>
                 /\ StoredPrompt(files', sid) = Pending(files, sid)[1].improved_prompt
                 /\ cookie'[c].count = cookie[c].count + 1
                 /\ Pending(files', sid) = <<>>
      ]_vars

\* a second refinement approved: its prompt differs from the one the session
\* started with
C24_Witness ==
    /\ ev.op = "approve_iteration" /\ ev.status = "success" /\ ev.client = 1
    /\ cookie[1].count = 2
    /\ StoredPrompt(files, cookie[1].sid) = <<"b">>
    /\ Pending(files, cookie[1].sid) = <<>>

\* C25: run_batch_inference raises nothing and returns one result per
\* response, in input order, result i with index i and the text of response
\* i; the label is 'error' when the reply has no key i, could not be obtained
\* or could not be parsed; a key missing for one response leaves the labels
\* of the others as the reply gives them.
C25_OneResultPerResponse ==
    (call # <<>> /\ call[1].returned) =>
        LET responses == call[1].responses
            reply == call[1].reply
            results == call[1].value
            readable == /\ reply.kind = "json"
                        /\ \A k \in DOMAIN reply.scores :
                              k < Len(responses) => reply.scores[k] # NotText
        IN  /\ ~call[1].raised
            /\ Len(results) = Len(responses)
            /\ \A i \in 1..Len(responses) :
                  /\ results[i].index = i - 1
                  /\ results[i].response_text = responses[i].text
                  /\ (reply.kind # "json" \/ (i - 1) \notin DOMAIN reply.scores)
                        => results[i].ai_classification = ErrorLabel
                  /\ (readable /\ (i - 1) \in DOMAIN reply.scores)
                        => results[i].ai_classification = strip(reply.scores[i - 1])

\* two responses, the reply classifies the second only
C25_Witness ==
    /\ call # <<>> /\ call[1].returned
    /\ Len(call[1].responses) = 2
    /\ call[1].reply.kind = "json" /\ DOMAIN call[1].reply.scores = {1}
    /\ call[1].value[1].ai_classification = ErrorLabel
    /\ call[1].value[2].ai_classification = <<"L">>

\* ------------------------------------------------------ iteration_history
\* C26: in every reachable state of a web session, in either mode,
\* iteration_history holds one entry per accepted refinement, and the
\* 'iteration' fields of its entries are 1, 2, ..., count in this order,
\* count being the iteration count of the session.
C26_HistoryMatchesCount ==
    \A c \in Clients :
        cookie[c].sid # 0 =>
            LET history == History(files, cookie[c].sid)
            IN  /\ Len(history) = cookie[c].count
                /\ \A k \in 1..Len(history) : history[k].iteration = k

\* the same in production mode, for a session that did not restart at step 1
\* with a count left over
C26_ProductionHistoryMatchesCount ==
    \A c \in Clients :
        (~DEV_MODE /\ cookie[c].sid # 0 /\ files[cookie[c].sid] # <<>>) =>
            LET history == History(files, cookie[c].sid)
            IN  \A k \in 1..Len(history) :
                    /\ history[k].kind # "pending_review"
                    /\ k > 1 => history[k].iteration = history[k - 1].iteration + 1
                    /\ k = Len(history) => history[k].iteration = cookie[c].count

C28_Step2ReachesStep3 ==
    [][ ev'.op = "step_2" => (term'.pc = "step3" /\ term'.classes # {}) ]_vars

\* -------------------------------------------------------- session files
\* C29: for each of the keys survey_data, classes, initial_prompt,
\* user_feedback, iteration_history and current_iteration_data, reading the
\* key right after saving a value under it gives that value back; for
\* survey_data, the same title, the same description and the same response
\* texts in the same order, also when there are no responses.
C29_ReadsBackWhatWasSaved ==
    (program = "storage" /\ call[1].key # "none") =>
        /\ call[1].got # <<>>
        /\ IF call[1].key = "survey_data"
           THEN /\ call[1].got[1].title = call[1].data.title
                /\ call[1].got[1].description = call[1].data.description
                /\ [i \in 1..Len(call[1].got[1].responses) |->
                      call[1].got[1].responses[i].text]
                   = [i \in 1..Len(call[1].data.responses) |->
                        call[1].data.responses[i].text]
           ELSE call[1].got[1] = call[1].data

\* the same for a save that carries at least one response, and for the other keys
C29_ReadsBackUnlessNoResponses ==
    (program = "storage" /\ call[1].key # "none") =>
        /\ call[1].got # <<>>
        /\ IF call[1].key = "survey_data"
           THEN /\ call[1].got[1].title = call[1].data.title
                /\ call[1].got[1].description = call[1].data.description
                /\ call[1].data.responses # <<>> =>
                     [i \in 1..Len(call[1].got[1].responses) |->
                        call[1].got[1].responses[i].text]
                     = [i \in 1..Len(call[1].data.responses) |->
                          call[1].data.responses[i].text]
           ELSE call[1].got[1] = call[1].data

\* C30: when the step 1 page or the index route starts a new session, the
\* files kept for the session that is abandoned (its session object file and
\* its responses file) are removed: no file named after the abandoned session
\* id is left.
C30_AbandonedFilesRemoved ==
    [][ (ev'.op \in {"index", "show_step"} /\ ev'.status = "new_session"
         /\ cookie[ev'.client].sid # 0)
          => files'[cookie[ev'.client].sid] = <<>> ]_vars


====
